---- MODULE Spec2Model ----
(***************************************************************************)
(* Streaming path of the Claude-to-Gemini proxy:                           *)
(*   create_message (api/endpoints.py)                                     *)
(*     -> GeminiClient.create_chat_completion_stream (core/gemini_client)  *)
(*     -> convert_gemini_to_claude_stream_response (response_converter)    *)
(* The converter is an async generator.  Every `yield` is a suspension     *)
(* point: the events a handler yields are put on `pending` and handed to   *)
(* the transport one at a time by Deliver; the generator only advances     *)
(* once the transport has taken what it yielded.                           *)
(***************************************************************************)
EXTENDS Integers, Sequences, FiniteSets, TLC

\* ------------------------------------------------------------------ bounds
MaxParts == 3          \* parts received over one content stream
MaxUsageChunks == 2    \* chunks of one usage-reporting stream
MaxChunks == 5         \* chunks of one plain-text stream
MaxFinishChunks == 2   \* chunks of one finish-reason stream
MaxResponseParts == 2  \* parts of one non-streaming response
MaxSchemaDepth == 1    \* levels of schemas nested in a tool's input schema
MaxBlocks == 2         \* content blocks of one inbound message
MaxMessages == 2       \* messages of one inbound request
MaxCacheOps == 4       \* store and lookup operations on the content cache
MaxClock == 3          \* readings of the clock, in units of the shortest TTL
MaxPairChunks == 2     \* chunks of each of two concurrent streams
MaxLiveChunks == 3     \* chunks of one stream followed to its end

\* ------------------------------------------------------- optional values
\* Python None / absent key is the empty set, a present value a singleton.
None == {}
Some(v) == {v}
The(o) == CHOOSE v \in o : TRUE

\* ------------------------------------------------------------ SDK objects
\* Text is a sequence of characters.
RawText(t, th) ==
    [text |-> t, thought |-> th, function_call |-> None, thought_signature |-> None]
RawCall(args) ==
    [text |-> <<>>, thought |-> FALSE,
     function_call |-> Some([name |-> "f", args |-> args]),
     thought_signature |-> None]

ThoughtA == RawText(<<"a">>, TRUE)
ThoughtB == RawText(<<"b">>, TRUE)
TextC == RawText(<<"c">>, FALSE)
TextSigned == [RawText(<<"d">>, FALSE) EXCEPT !.thought_signature = Some("sig")]
CallArgs == RawCall(<<"k">>)
CallNoArgs == RawCall(<<>>)
EmptyPart == RawText(<<>>, FALSE)

PartKinds == {ThoughtA, ThoughtB, TextC, CallArgs, CallNoArgs, EmptyPart}

RawUsage(p, c, t) ==
    [prompt_token_count |-> p, candidates_token_count |-> c, thoughts_token_count |-> t]

RawResponse(parts, fr, um) ==
    [candidates |-> <<[content |-> Some([parts |-> parts]), finish_reason |-> fr]>>,
     usage_metadata |-> um]

\* A response of the SDK that carries no candidate at all.
NoCandidateResponse == [candidates |-> <<>>, usage_metadata |-> None]

\* --------------------------------------------- GeminiClient._response_to_dict
PartToDict(part) ==
    [text |-> part.text,
     thought |-> part.thought,
     function_call |-> part.function_call,
     thought_signature |-> part.thought_signature]

CandidateToDict(cand) ==
    [content |->
        [parts |-> IF cand.content # None
                   THEN [i \in 1..Len(The(cand.content).parts) |->
                            PartToDict(The(cand.content).parts[i])]
                   ELSE <<>>],
     finish_reason |-> cand.finish_reason]

UsageToDict(um) ==
    IF um = None THEN None
    ELSE LET u == The(um)
             thoughts_tokens == IF u.thoughts_token_count = None THEN 0
                                ELSE The(u.thoughts_token_count)
         IN Some([prompt_token_count |-> u.prompt_token_count,
                  candidates_token_count |-> u.candidates_token_count,
                  thoughts_token_count |-> IF thoughts_tokens > 0
                                           THEN Some(thoughts_tokens) ELSE None])

ResponseToDict(response) ==
    [type |-> "chunk",
     candidates |-> [i \in 1..Len(response.candidates) |->
                        CandidateToDict(response.candidates[i])],
     usage_metadata |-> UsageToDict(response.usage_metadata)]

\* The error payload the gateway yields when every endpoint failed.
ErrorResponse(message) ==
    [type |-> "error",
     error |-> [type |-> "api_error", message |-> message]]

\* -------------------------------------------------------------- SSE events
MessageStart ==
    [type |-> "message_start", stop_reason |-> None,
     usage |-> [input_tokens |-> 0, output_tokens |-> 0]]
TextBlockStart == [type |-> "content_block_start", index |-> 0, block |-> "text"]
Ping == [type |-> "ping"]
ErrorEvent(error) == [type |-> "error", error |-> error]
TextDelta(index, text, signature) ==
    [type |-> "content_block_delta", index |-> index, delta |-> "text_delta",
     text |-> text, thought_signature |-> signature]
ToolBlockStart(index, tool_use_id, name, signature) ==
    [type |-> "content_block_start", index |-> index, block |-> "tool_use",
     id |-> tool_use_id, name |-> name, input |-> <<>>,
     thought_signature |-> signature]
JsonDumps(args) == <<"{">> \o args \o <<"}">>
InputJsonDeltaAtZero(index, args) ==
    [type |-> "content_block_delta", index |-> 0, delta |-> "input_json_delta",
     text |-> JsonDumps(args), thought_signature |-> None]
InputJsonDelta(index, args) ==
    [type |-> "content_block_delta", index |-> index, delta |-> "input_json_delta",
     text |-> JsonDumps(args), thought_signature |-> None]
BlockStop(index) == [type |-> "content_block_stop", index |-> index]
MessageDelta(stop_reason, usage) ==
    [type |-> "message_delta", stop_reason |-> stop_reason, usage |-> usage]
MessageStop == [type |-> "message_stop"]
Done == [type |-> "[DONE]"]

\* f"<thinking>\n{thinking_buffer}\n</thinking>"
ThinkingTextUnclosed(buffer) == <<"<thinking>", "\n">> \o buffer
ThinkingText(buffer) == <<"<thinking>", "\n">> \o buffer \o <<"\n", "</thinking>">>

\* ------------------------------------------------------------------ state
VARIABLES
    response,             \* the HTTP response: none, http_499, streaming, closed
    pc,                   \* position of the converter generator
    gw,                   \* position of create_chat_completion_stream
    fallback_client,      \* GeminiClient.fallback_client is configured
    requested,            \* times the converter asked the gateway for a chunk
    recv,                 \* chunk dicts the converter received, in order
    cur,                  \* chunk_dict of the running loop iteration
    parts,                \* parts of cur still to be processed
    pending,              \* events yielded, not yet taken by the transport
    out,                  \* events sent to the client, in order
    content_block_index,
    final_stop_reason,
    usage_data,
    chunk_count,
    thinking_buffer,
    thinking_active,
    thinking_sent

\* The non-streaming path of create_message.
VARIABLES
    ns_pc,                \* position of the non-streaming request
    endpoint_calls,       \* generate_content calls made, in order
    api_response,         \* what create_chat_completion returned
    http_response         \* what the client got for the request

\* The tool loop of convert_claude_to_gemini, on one tool's input_schema.
VARIABLES
    tool_pc,              \* position in the tool loop
    original_schema,      \* tool.input_schema
    adapted_schema,       \* what _gemini_schema_adapter returned for it
    validation_issues,    \* how many issues _validate_schema reported
    readapted_schema      \* the adapter applied to its own output

\* convert_claude_to_gemini on one inbound request.
VARIABLES
    rq_pc,                       \* position in the conversion
    body,                        \* the JSON body the client sent
    request,                     \* the ClaudeMessagesRequest parsed from it
    contents,                    \* the backend contents built so far
    gemini_request_data,         \* the backend request built so far
    enable_thinking_by_default   \* config.enable_thinking_by_default

\* The client-side content cache of GeminiClient.
VARIABLES
    cache_store,          \* GeminiClient._cache_store: cache key -> cache_info
    default_cache_ttl,    \* GeminiClient._default_cache_ttl
    clock,                \* what datetime.now(utc) returns
    cache_log             \* the cache operations made, with what they returned

\* A second streaming call on the same event loop.
VARIABLES
    suspended             \* the frame of the call that is not running, if any

conv == <<content_block_index, final_stop_reason, usage_data,
          thinking_buffer, thinking_active, thinking_sent>>
streaming == <<response, pc, gw, requested, recv, cur, parts,
               pending, out, chunk_count, conv>>
non_streaming == <<ns_pc, endpoint_calls, api_response, http_response>>
\* What a streaming request leaves alone.
tool_schema == <<tool_pc, original_schema, adapted_schema, validation_issues,
                 readapted_schema>>
conversion == <<rq_pc, body, request, contents, gemini_request_data,
                enable_thinking_by_default>>
content_cache == <<cache_store, default_cache_ttl, clock, cache_log>>
off_stream == <<non_streaming, tool_schema, conversion, content_cache, suspended>>
\* What a non-streaming request leaves alone.
off_response == <<fallback_client, streaming, tool_schema, conversion, content_cache,
                  suspended>>
vars == <<fallback_client, streaming, off_stream>>

\* ------------------------------------------------------------------ inputs
\* What the backend may stream is bounded by families of streams: content
\* streams (any parts, no metadata; a part without text and call, and a
\* signed text part, alone in their chunk), usage streams (one text part per chunk,
\* any usage), finish streams (one text or call part per chunk, any finish
\* reason) and plain streams (text only, long enough to reach the keep-alive
\* period).
RECURSIVE SeqsUpTo(_, _)
SeqsUpTo(S, n) ==
    IF n = 0 THEN {<<>>}
    ELSE LET shorter == SeqsUpTo(S, n - 1)
         IN shorter \cup {Append(s, x) : s \in shorter, x \in S}

UsageKinds ==
    {None,
     Some(RawUsage(Some(1), Some(1), None)),
     Some(RawUsage(Some(1), Some(2), Some(1))),
     Some(RawUsage(None, Some(3), Some(0)))}

UsageResponses ==
    {RawResponse(<<TextC>>, fr, um) : fr \in {None, Some("MAX_TOKENS")}, um \in UsageKinds}

PlainResponse == RawResponse(<<TextC>>, None, None)

\* Finish reasons as _response_to_dict passes them on: the name of the SDK's
\* enum value.  "stop" stands for a name that differs from STOP in case only.
FinishKinds == {"STOP", "MAX_TOKENS", "TOOL_CODE", "SAFETY", "stop"}

FinishResponses ==
    {RawResponse(<<p>>, fr, None) :
        p \in {TextC, CallArgs}, fr \in {None} \cup {Some(f) : f \in FinishKinds}}

\* Responses on which line 182 of the converter raises.
BrokenResponses == {NoCandidateResponse, RawResponse(<<>>, None, None)}

RECURSIVE PartCount(_)
PartCount(h) ==
    IF h = <<>> THEN 0
    ELSE Len(h[1].candidates[1].content.parts) + PartCount(Tail(h))

NoMetadata(chunk_dict) ==
    /\ chunk_dict.usage_metadata = None
    /\ chunk_dict.candidates[1].finish_reason = None
OneText(chunk_dict) ==
    chunk_dict.candidates[1].content.parts = <<PartToDict(TextC)>>

OneTextOrCall(chunk_dict) ==
    /\ chunk_dict.usage_metadata = None
    /\ chunk_dict.candidates[1].content.parts \in
          {<<PartToDict(TextC)>>, <<PartToDict(CallArgs)>>}

ContentChoices(h) ==
    IF (\A i \in 1..Len(h) : NoMetadata(h[i])) /\ PartCount(h) < MaxParts
    THEN {RawResponse(ps, None, None) :
             ps \in SeqsUpTo(PartKinds \ {EmptyPart}, MaxParts - PartCount(h)) \ {<<>>}}
         \cup {RawResponse(<<TextSigned>>, None, None),
               RawResponse(<<EmptyPart>>, None, None)}
    ELSE {}
UsageChoices(h) ==
    IF (\A i \in 1..Len(h) : OneText(h[i])) /\ Len(h) < MaxUsageChunks
    THEN UsageResponses ELSE {}
PlainChoices(h) ==
    IF (\A i \in 1..Len(h) : OneText(h[i]) /\ NoMetadata(h[i])) /\ Len(h) < MaxChunks
    THEN {PlainResponse} ELSE {}
FinishChoices(h) ==
    IF (\A i \in 1..Len(h) : OneTextOrCall(h[i])) /\ Len(h) < MaxFinishChunks
    THEN FinishResponses ELSE {}
BrokenChoices(h) ==
    IF Len(h) < MaxChunks THEN BrokenResponses ELSE {}

\* What each of two concurrent streams may hold: reasoning and text, a
\* function call, text with a finish reason and usage.
PairResponses ==
    {RawResponse(<<ThoughtA, TextC>>, None, None),
     RawResponse(<<CallArgs>>, None, None),
     RawResponse(<<TextC>>, Some("MAX_TOKENS"), Some(RawUsage(Some(1), Some(2), Some(1))))}
PairChoices(h) ==
    IF Len(h) < MaxPairChunks THEN PairResponses ELSE {}

\* The responses an endpoint may stream next, h being what was received.
Choices(h) ==
    IF suspended # None THEN PairChoices(h)
    ELSE ContentChoices(h) \cup UsageChoices(h) \cup PlainChoices(h)
            \cup FinishChoices(h) \cup BrokenChoices(h)

\* -------------------------------------------------------------------- Init
InitUsage == [input_tokens |-> 0, output_tokens |-> 0, thoughts_token_count |-> 0]

\* No request was made yet.
Idle ==
    /\ response = "none"
    /\ gw = "unstarted"
    /\ fallback_client \in BOOLEAN
    /\ requested = 0
    /\ recv = <<>>
    /\ cur = None
    /\ parts = <<>>
    /\ pending = <<>>
    /\ out = <<>>
    /\ content_block_index = 0
    /\ final_stop_reason = "end_turn"
    /\ usage_data = InitUsage
    /\ chunk_count = 0
    /\ thinking_buffer = <<>>
    /\ thinking_active = FALSE
    /\ thinking_sent = FALSE
    /\ endpoint_calls = <<>>
    /\ api_response = None
    /\ http_response = None
    /\ suspended = None

\* The content cache is not used.
NoCache ==
    /\ cache_store = <<>>
    /\ default_cache_ttl = 0
    /\ clock = 0
    /\ cache_log = <<>>

\* No request is being converted.
NoRequest ==
    /\ rq_pc = "none"
    /\ body = None
    /\ request = None
    /\ contents = <<>>
    /\ gemini_request_data = None
    /\ enable_thinking_by_default = FALSE

\* No tool is being converted.
NoTool ==
    /\ tool_pc = "none"
    /\ original_schema = None
    /\ adapted_schema = None
    /\ validation_issues = None
    /\ readapted_schema = None

\* A streaming request arrives.
Init ==
    /\ Idle
    /\ NoTool
    /\ NoRequest
    /\ NoCache
    /\ pc = "request"
    /\ ns_pc = "none"

\* ------------------------------------------------------- api/endpoints.py
\* create_message with request.stream: the gateway generator is created (not
\* started) and handed to the converter inside a StreamingResponse.
create_message ==
    /\ pc = "request"
    /\ \E is_disconnected \in BOOLEAN :
          IF is_disconnected
          THEN /\ response' = "http_499"
               /\ pc' = "done"
          ELSE /\ response' = "streaming"
               /\ pc' = "start"
    /\ UNCHANGED <<gw, fallback_client, requested, recv, cur, parts, pending, out,
                   chunk_count, conv>>
    /\ UNCHANGED off_stream

\* The transport takes the next yielded event and sends it to the client.
Deliver ==
    /\ response = "streaming"
    /\ pending # <<>>
    /\ out' = Append(out, Head(pending))
    /\ pending' = Tail(pending)
    /\ UNCHANGED <<response, pc, gw, fallback_client, requested, recv, cur, parts,
                   chunk_count, conv>>
    /\ UNCHANGED off_stream

\* ---------------------------------- convert_gemini_to_claude_stream_response
\* Lines 157-161: the three initial events.
StartEventsNoPing == <<MessageStart, TextBlockStart>>
StartEvents == <<MessageStart, TextBlockStart, Ping>>

\* Lines 154-175: the three initial events, then the tracking variables.
Start ==
    /\ pc = "start"
    /\ pending = <<>>
    /\ pending' = StartEvents
    /\ content_block_index' = 0
    /\ final_stop_reason' = "end_turn"
    /\ usage_data' = InitUsage
    /\ chunk_count' = 0
    /\ thinking_buffer' = <<>>
    /\ thinking_active' = FALSE
    /\ thinking_sent' = FALSE
    /\ pc' = "await"
    /\ UNCHANGED <<response, gw, fallback_client, requested, recv, cur, parts, out>>
    /\ UNCHANGED off_stream

\* Line 182 indexes [0] into the candidates list and into the parts list of
\* the first candidate; the defaults of .get apply only to a missing key, so
\* a present but empty list raises IndexError.
HasFunctionCallRaises(chunk_dict) ==
    /\ chunk_dict.type # "error"
    /\ \/ chunk_dict.candidates = <<>>
       \/ chunk_dict.candidates[1].content.parts = <<>>

StreamingError ==
    ErrorEvent([type |-> "api_error", message |-> "Gemini streaming error"])

PeriodicPing(count) == IF count % 5 = 0 THEN <<Ping>> ELSE <<>>

\* Lines 361-368: the except branch of the loop.
ExceptThenDrain ==
    /\ pending' = <<StreamingError>>
    /\ pc' = "drain"
    /\ UNCHANGED <<cur, parts>>
Except ==
    /\ pending' = <<StreamingError>>
    /\ pc' = "done"
    /\ UNCHANGED <<cur, parts>>

\* Line 197: the return that follows the error event of an error chunk.
ReturnGoesOn == "await"
Return == "done"

\* Lines 178-204: the head of one loop iteration, on receipt of chunk_dict.
Receive(chunk_dict) ==
    /\ recv' = Append(recv, chunk_dict)
    /\ chunk_count' = chunk_count + 1
    /\ IF HasFunctionCallRaises(chunk_dict)
       THEN Except
       ELSE IF chunk_dict.type = "error"
       THEN /\ pending' = PeriodicPing(chunk_count') \o <<ErrorEvent(chunk_dict.error)>>
            /\ pc' = Return
            /\ UNCHANGED <<cur, parts>>
       ELSE IF chunk_dict.candidates = <<>>
       THEN /\ pending' = PeriodicPing(chunk_count')
            /\ pc' = "await"
            /\ UNCHANGED <<cur, parts>>
       ELSE /\ pending' = PeriodicPing(chunk_count')
            /\ cur' = Some(chunk_dict)
            /\ parts' = chunk_dict.candidates[1].content.parts
            /\ pc' = "parts"
    /\ UNCHANGED <<response, fallback_client, out, conv>>

\* Lines 228-238 and 371-379: the buffered reasoning, wrapped, if still unsent.
ThinkingFlushAgain ==
    IF thinking_active /\ thinking_buffer # <<>>
    THEN <<TextDelta(0, ThinkingText(thinking_buffer), None)>>
    ELSE <<>>
ThinkingFlush ==
    IF thinking_active /\ thinking_buffer # <<>> /\ ~thinking_sent
    THEN <<TextDelta(0, ThinkingText(thinking_buffer), None)>>
    ELSE <<>>

TextDeltaIndex == content_block_index

\* Line 268: "toolu_" and the first eight hex digits of uuid4(), which is
\* called once for every function-call part.  The calls of one conversion
\* are taken to return different values: the id is named by the number of
\* the call, one more than the function-call parts handled before, which
\* content_block_index counts.
ToolUseId(call) == <<"toolu_", call>>

\* Line 271: content_block_index += 1.
NextBlockIndexStuck(index) == IF index = 0 THEN 1 ELSE index
NextBlockIndex(index) == index + 1

\* Lines 210-318: one part of the chunk.
ProcessPart ==
    /\ pc = "parts"
    /\ pending = <<>>
    /\ parts # <<>>
    /\ LET part == Head(parts) IN
          IF part.text # <<>>
          THEN IF part.thought
               THEN /\ thinking_buffer' = thinking_buffer \o part.text
                    /\ thinking_active' = TRUE
                    /\ pending' = <<>>
                    /\ UNCHANGED <<thinking_sent, content_block_index, final_stop_reason>>
               ELSE /\ pending' = ThinkingFlush \o
                                  <<TextDelta(TextDeltaIndex, part.text, part.thought_signature)>>
                    /\ thinking_sent' = (thinking_sent \/ ThinkingFlush # <<>>)
                    /\ UNCHANGED <<thinking_buffer, thinking_active,
                                   content_block_index, final_stop_reason>>
          ELSE IF part.function_call # None
          THEN LET function_call == The(part.function_call)
                   tool_use_id == ToolUseId(content_block_index + 1)
                   current_tool_index == NextBlockIndex(content_block_index)
               IN /\ content_block_index' = current_tool_index
                  /\ pending' =
                        <<ToolBlockStart(current_tool_index, tool_use_id,
                                         function_call.name, part.thought_signature)>>
                        \o (IF function_call.args # <<>>
                            THEN <<InputJsonDelta(current_tool_index, function_call.args)>>
                            ELSE <<>>)
                        \o <<BlockStop(current_tool_index)>>
                  /\ final_stop_reason' = "tool_use"
                  /\ UNCHANGED <<thinking_buffer, thinking_active, thinking_sent>>
          ELSE /\ pending' = <<>>
               /\ UNCHANGED <<thinking_buffer, thinking_active, thinking_sent,
                              content_block_index, final_stop_reason>>
    /\ parts' = Tail(parts)
    /\ UNCHANGED <<response, pc, gw, fallback_client, requested, recv, cur, out,
                   chunk_count, usage_data>>
    /\ UNCHANGED off_stream

\* Lines 320-330.
StreamStopReasonNoToolCode(finish_reason) ==
    IF finish_reason = "MAX_TOKENS" THEN "max_tokens" ELSE "end_turn"
StreamStopReason(finish_reason) ==
    IF finish_reason = "MAX_TOKENS" THEN "max_tokens"
    ELSE IF finish_reason = "TOOL_CODE" THEN "tool_use"
    ELSE "end_turn"

\* Lines 332-344: every reported counter replaces the running one.
OverwriteAdding(old, reported) == IF reported # None THEN old + The(reported) ELSE old
Overwrite(old, reported) == IF reported # None THEN The(reported) ELSE old

UpdateUsage(usage, usage_metadata) ==
    IF usage_metadata = None THEN usage
    ELSE LET um == The(usage_metadata)
         IN [input_tokens |-> Overwrite(usage.input_tokens, um.prompt_token_count),
             output_tokens |-> Overwrite(usage.output_tokens, um.candidates_token_count),
             thoughts_token_count |->
                 Overwrite(usage.thoughts_token_count, um.thoughts_token_count)]

\* Lines 322-330: the value mapped from the finish reason is assigned to
\* final_stop_reason, whatever it held.
FinishWriteKeepingToolUse(current, mapped) ==
    IF current = "tool_use" THEN current ELSE mapped
FinishWrite(current, mapped) == mapped

\* Lines 320-359: the tail of one loop iteration, after the last part.
EndChunk ==
    /\ pc = "parts"
    /\ pending = <<>>
    /\ parts = <<>>
    /\ LET chunk_dict == The(cur)
           finish_reason == chunk_dict.candidates[1].finish_reason
       IN /\ final_stop_reason' = IF finish_reason # None
                                  THEN FinishWrite(final_stop_reason,
                                                   StreamStopReason(The(finish_reason)))
                                  ELSE final_stop_reason
          /\ usage_data' = UpdateUsage(usage_data, chunk_dict.usage_metadata)
    /\ cur' = None
    /\ pc' = "await"
    /\ UNCHANGED <<response, gw, fallback_client, requested, recv, parts, pending, out,
                   chunk_count, content_block_index, thinking_buffer, thinking_active,
                   thinking_sent>>
    /\ UNCHANGED off_stream

\* Lines 370-396: after the loop ended without exception.
DrainEventsTextBlockOpen ==
    ThinkingFlush \o
    <<MessageDelta(final_stop_reason, usage_data), MessageStop, Done>>
DrainEvents ==
    ThinkingFlush \o
    <<BlockStop(0), MessageDelta(final_stop_reason, usage_data), MessageStop, Done>>

Drain ==
    /\ pc = "drain"
    /\ pending = <<>>
    /\ pending' = DrainEvents
    /\ pc' = "done"
    /\ UNCHANGED <<response, gw, fallback_client, requested, recv, cur, parts, out,
                   chunk_count, conv>>
    /\ UNCHANGED off_stream

\* ----------------------- GeminiClient.create_chat_completion_stream (430-471)
\* The converter's `async for` resumes the gateway generator, which runs to
\* its next yield, to its end, or to an exception.
Awaiting == pc = "await" /\ pending = <<>>

\* A resumption that begins inside the except handler of the primary call
\* belongs to the request that made the primary call fail.
Resumed == IF gw \in {"unstarted", "primary", "fallback"} THEN requested + 1 ELSE requested

\* Lines 432-439: the primary stream yields its next chunk.
PrimaryYield ==
    /\ Awaiting
    /\ gw \in {"unstarted", "primary"}
    /\ \E response_obj \in Choices(recv) : Receive(ResponseToDict(response_obj))
    /\ gw' = "primary"
    /\ requested' = Resumed
    /\ UNCHANGED off_stream

\* The primary stream is exhausted: the generator returns, the loop ends.
PrimaryEnds ==
    /\ Awaiting
    /\ gw \in {"unstarted", "primary"}
    /\ gw' = "primary_done"
    /\ requested' = Resumed
    /\ pc' = "drain"
    /\ UNCHANGED <<response, fallback_client, recv, cur, parts, pending, out,
                   chunk_count, conv>>
    /\ UNCHANGED off_stream

\* Lines 441-445, 462-464: the primary call or its stream raises.
PrimaryFails ==
    /\ Awaiting
    /\ gw \in {"unstarted", "primary"}
    /\ gw' = IF fallback_client THEN "fallback_call" ELSE "failed"
    /\ requested' = Resumed
    /\ UNCHANGED <<response, pc, fallback_client, recv, cur, parts, pending, out,
                   chunk_count, conv>>
    /\ UNCHANGED off_stream

\* Lines 448-455: the fallback stream, a new call, yields its next chunk.
FallbackYield ==
    /\ Awaiting
    /\ gw \in {"fallback_call", "fallback"}
    /\ \E response_obj \in Choices(recv) : Receive(ResponseToDict(response_obj))
    /\ gw' = "fallback"
    /\ requested' = Resumed
    /\ UNCHANGED off_stream

\* Lines 456-457.
FallbackEnds ==
    /\ Awaiting
    /\ gw \in {"fallback_call", "fallback"}
    /\ gw' = "fallback_done"
    /\ requested' = Resumed
    /\ pc' = "drain"
    /\ UNCHANGED <<response, fallback_client, recv, cur, parts, pending, out,
                   chunk_count, conv>>
    /\ UNCHANGED off_stream

\* Lines 458-461.
FallbackFails ==
    /\ Awaiting
    /\ gw \in {"fallback_call", "fallback"}
    /\ gw' = "failed"
    /\ requested' = Resumed
    /\ UNCHANGED <<response, pc, fallback_client, recv, cur, parts, pending, out,
                   chunk_count, conv>>
    /\ UNCHANGED off_stream

\* Lines 466-471: every endpoint failed, the gateway yields an error payload.
YieldError ==
    /\ Awaiting
    /\ gw = "failed"
    /\ Receive(ErrorResponse(IF fallback_client
                             THEN "Both primary and fallback Gemini streaming APIs failed"
                             ELSE "Gemini API streaming error"))
    /\ gw' = "error_yielded"
    /\ requested' = Resumed
    /\ UNCHANGED off_stream

\* Lines 389-424 run on the first resumption, outside the try: what they
\* raise reaches the converter's except branch.
GatewayRaises ==
    /\ Awaiting
    /\ gw = "unstarted"
    /\ gw' = "raised"
    /\ requested' = Resumed
    /\ Except
    /\ UNCHANGED <<response, fallback_client, recv, out, chunk_count, conv>>
    /\ UNCHANGED off_stream

\* ------------------------------------------------------- client disconnect
\* The generator is suspended at a yield or at the await of the next chunk
\* when the transport cancels it.  What is raised there (CancelledError,
\* GeneratorExit) is a BaseException: `except Exception` at line 361 and at
\* lines 441 and 458 of the gateway does not catch it, so the generator ends
\* at that point and its frame is dropped.
CancelledCaught ==
    /\ pending' = <<StreamingError>>
    /\ pc' = "done"
Cancelled ==
    /\ pending' = <<>>
    /\ pc' = "cancelled"

GeneratorAlive == pc \in {"start", "await", "parts", "drain"} \/ pending # <<>>

Disconnect ==
    /\ response = "streaming"
    /\ GeneratorAlive
    /\ response' = "closed"
    /\ Cancelled
    /\ cur' = None
    /\ parts' = <<>>
    /\ content_block_index' = 0
    /\ final_stop_reason' = "end_turn"
    /\ usage_data' = InitUsage
    /\ chunk_count' = 0
    /\ thinking_buffer' = <<>>
    /\ thinking_active' = FALSE
    /\ thinking_sent' = FALSE
    /\ UNCHANGED <<gw, fallback_client, requested, recv, out>>
    /\ UNCHANGED off_stream

\* ------------------------------------------------------------ specification
Next ==
    \/ create_message
    \/ Deliver
    \/ Start
    \/ PrimaryYield
    \/ PrimaryEnds
    \/ PrimaryFails
    \/ FallbackYield
    \/ FallbackEnds
    \/ FallbackFails
    \/ YieldError
    \/ GatewayRaises
    \/ ProcessPart
    \/ EndChunk
    \/ Drain
    \/ Disconnect

Spec == Init /\ [][Next]_vars

\* ------------------------------------- convert_gemini_to_claude_response
\* Line 20, models/gemini.py: Candidate declares content and finish_reason
\* as required; _response_to_dict always sets both keys, finish_reason to
\* None when the SDK object has none, and a str field rejects None.
GeminiResponseValid(response_dict) ==
    \A i \in 1..Len(response_dict.candidates) :
        response_dict.candidates[i].finish_reason # None

\* Lines 58-66.
StopReasonFolded(finish_reason) ==
    IF finish_reason \in {"STOP", "stop"} THEN "end_turn"
    ELSE IF finish_reason = "MAX_TOKENS" THEN "max_tokens"
    ELSE IF finish_reason = "TOOL_CODE" THEN "tool_use"
    ELSE "stop_sequence"
StopReason(finish_reason) ==
    IF finish_reason = "STOP" THEN "end_turn"
    ELSE IF finish_reason = "MAX_TOKENS" THEN "max_tokens"
    ELSE IF finish_reason = "TOOL_CODE" THEN "tool_use"
    ELSE "stop_sequence"

\* models/claude.py ContentBlock, as model_dump(exclude_none=False) gives it.
ContentBlock(type, text, id, name, input) ==
    [type |-> type, text |-> text, id |-> id, name |-> name, input |-> input,
     metadata |-> None, thought_signature |-> None]

\* Line 37.
WrappedText(text) == <<"<thinking>", "\n">> \o text \o <<"\n", "</thinking>">>

\* Line 51: part.function_call.args or {}.
ToolInputUnset(args) == IF args = <<>> THEN None ELSE Some(args)
ToolInput(args) == Some(args)

\* Lines 28-56: the blocks one part contributes.
PartBlocks(part) ==
    IF part.text # <<>>
    THEN <<ContentBlock("text",
                        Some(IF part.thought THEN WrappedText(part.text) ELSE part.text),
                        None, None, None)>>
    ELSE IF part.function_call # None
    THEN <<ContentBlock("tool_use", None, Some("toolu_"),
                        Some(The(part.function_call).name),
                        ToolInput(The(part.function_call).args))>>
    ELSE <<>>

RECURSIVE ContentBlocks(_)
ContentBlocks(ps) ==
    IF ps = <<>> THEN <<>> ELSE PartBlocks(Head(ps)) \o ContentBlocks(Tail(ps))

\* `x if usage_data and x else 0`, `raw_thoughts or 0`.
OrZero(count) == IF count # None THEN The(count) ELSE 0

\* Lines 68-95: usage_dict.
UsageDict(usage_metadata) ==
    LET thoughts_tokens ==
            IF usage_metadata = None THEN 0
            ELSE OrZero(The(usage_metadata).thoughts_token_count)
        input_tokens ==
            IF usage_metadata = None THEN 0
            ELSE OrZero(The(usage_metadata).prompt_token_count)
        output_tokens ==
            IF usage_metadata = None THEN 0
            ELSE OrZero(The(usage_metadata).candidates_token_count)
    IN IF thoughts_tokens > 0
       THEN [input_tokens |-> input_tokens, output_tokens |-> output_tokens,
             thoughts_token_count |-> thoughts_tokens]
       ELSE [input_tokens |-> input_tokens, output_tokens |-> output_tokens]

\* Line 97 and models/claude.py Usage, as model_dump(exclude_none=False)
\* gives it: every declared field, None where it was not set.
Usage(usage_dict) ==
    [input_tokens |-> usage_dict.input_tokens,
     output_tokens |-> usage_dict.output_tokens,
     cache_read_input_tokens |-> None,
     thoughts_token_count |->
         IF "thoughts_token_count" \in DOMAIN usage_dict
         THEN Some(usage_dict.thoughts_token_count) ELSE None]

\* Lines 99-110: the response model, dumped.
ClaudeMessagesResponse(content, stop_reason, usage) ==
    [id |-> "request_id", type |-> "message", role |-> "assistant", model |-> "model",
     content |-> content, stop_reason |-> stop_reason, usage |-> usage]

\* Lines 112-118: top-level keys whose value is None are dropped; of the
\* fields of the response model only stop_reason can be None.
CleanedResponse(response_dict) ==
    IF response_dict.stop_reason = None
    THEN [key \in DOMAIN response_dict \ {"stop_reason"} |-> response_dict[key]]
    ELSE response_dict

\* Lines 22-120, for a response_dict that passed line 20.
convert_gemini_to_claude_response(response_dict) ==
    LET candidates == response_dict.candidates
        content_blocks ==
            IF candidates # <<>> THEN ContentBlocks(candidates[1].content.parts)
            ELSE <<>>
        stop_reason ==
            IF candidates # <<>> /\ candidates[1].finish_reason # None
            THEN Some(StopReason(The(candidates[1].finish_reason)))
            ELSE None
    IN CleanedResponse(
           ClaudeMessagesResponse(content_blocks, stop_reason,
                                  Usage(UsageDict(response_dict.usage_metadata))))

\* ------------------------------ the non-streaming request, end to end
\* What generate_content may return.
NoCandidates(um) == [candidates |-> <<>>, usage_metadata |-> um]
NoContentResponse ==
    [candidates |-> <<[content |-> None, finish_reason |-> Some("STOP")]>>,
     usage_metadata |-> None]

ResponseChoices ==
    {RawResponse(ps, fr, um) :
        ps \in SeqsUpTo(PartKinds \cup {TextSigned}, MaxResponseParts),
        fr \in {None} \cup {Some(f) : f \in FinishKinds},
        um \in UsageKinds}
    \cup {NoCandidates(um) : um \in UsageKinds}
    \cup {NoContentResponse}

\* A non-streaming request arrives.
InitResponse ==
    /\ Idle
    /\ NoTool
    /\ NoRequest
    /\ NoCache
    /\ pc = "none"
    /\ ns_pc = "request"

\* api/endpoints.py lines 22-47 and 63-64, request.stream being false.
NonStreamingRequest ==
    /\ ns_pc = "request"
    /\ \E is_disconnected \in BOOLEAN :
          IF is_disconnected
          THEN /\ http_response' = Some([status |-> 499])
               /\ ns_pc' = "done"
          ELSE /\ http_response' = None
               /\ ns_pc' = "primary"
    /\ UNCHANGED <<off_response, endpoint_calls, api_response>>

\* The handlers at lines 68-76: an HTTPException passes, anything else
\* becomes HTTPException(500).
InternalError == Some([status |-> 500])

\* gemini_client.py lines 356-362: the primary endpoint answers.
PrimaryReturns ==
    /\ ns_pc = "primary"
    /\ endpoint_calls' = Append(endpoint_calls, "primary")
    /\ \E response_obj \in ResponseChoices :
          api_response' = Some(ResponseToDict(response_obj))
    /\ ns_pc' = "convert"
    /\ UNCHANGED <<off_response, http_response>>

\* Line 367: `if self.fallback_client`.
FallbackAssumed == TRUE
FallbackConfigured == fallback_client

\* Lines 363-367 and 381-383: the primary endpoint fails.
PrimaryRaises ==
    /\ ns_pc = "primary"
    /\ endpoint_calls' = Append(endpoint_calls, "primary")
    /\ IF FallbackConfigured
       THEN /\ ns_pc' = "fallback"
            /\ UNCHANGED http_response
       ELSE /\ ns_pc' = "done"
            /\ http_response' = InternalError
    /\ UNCHANGED <<off_response, api_response>>

\* Lines 369-376.
FallbackReturns ==
    /\ ns_pc = "fallback"
    /\ endpoint_calls' = Append(endpoint_calls, "fallback")
    /\ \E response_obj \in ResponseChoices :
          api_response' = Some(ResponseToDict(response_obj))
    /\ ns_pc' = "convert"
    /\ UNCHANGED <<off_response, http_response>>

\* Lines 377-380.
FallbackRaises ==
    /\ ns_pc = "fallback"
    /\ endpoint_calls' = Append(endpoint_calls, "fallback")
    /\ ns_pc' = "done"
    /\ http_response' = InternalError
    /\ UNCHANGED <<off_response, api_response>>

\* api/endpoints.py lines 65-66 and 70-76: the conversion, whose validation
\* error at line 20 of the converter ends as HTTPException(500).
ReturnJSON ==
    /\ ns_pc = "convert"
    /\ http_response' =
          IF GeminiResponseValid(The(api_response))
          THEN Some([status |-> 200,
                     content |-> convert_gemini_to_claude_response(The(api_response))])
          ELSE InternalError
    /\ ns_pc' = "done"
    /\ UNCHANGED <<off_response, endpoint_calls, api_response>>

NextResponse ==
    \/ NonStreamingRequest
    \/ PrimaryReturns
    \/ PrimaryRaises
    \/ FallbackReturns
    \/ FallbackRaises
    \/ ReturnJSON

SpecResponse == InitResponse /\ [][NextResponse]_vars

\* ------------------------------------------------------------ JSON values
\* A JSON value is tagged with its Python type.  Text is a sequence of
\* tokens: literal pieces, and values interpolated by an f-string (str()) or
\* by json.dumps.  Float(n) is the float n / 10.
Lit(s) == [kind |-> "lit", val |-> s]
Shown(v) == [kind |-> "str()", val |-> v]
Dumped(v) == [kind |-> "json.dumps", val |-> v]

Str(text) == [kind |-> "str", val |-> text]
S(s) == Str(<<Lit(s)>>)
Integer(n) == [kind |-> "int", val |-> n]
Float(n) == [kind |-> "float", val |-> n]
Bool(b) == [kind |-> "bool", val |-> b]
List(items) == [kind |-> "list", val |-> items]
Dict(d) == [kind |-> "dict", val |-> d]
Null == [kind |-> "null", val |-> 0]
\* An exception in place of a value.
Raised(exception) == [kind |-> "raised", val |-> exception]

Has(d, key) == key \in DOMAIN d
Get(d, key, default) == IF key \in DOMAIN d THEN d[key] ELSE default
Put(d, key, value) == [k \in DOMAIN d \cup {key} |-> IF k = key THEN value ELSE d[k]]
Del(d, key) == [k \in DOMAIN d \ {key} |-> d[k]]

\* bool(v).
Truthy(v) ==
    CASE v.kind = "str" -> v.val # <<>>
      [] v.kind = "int" -> v.val # 0
      [] v.kind = "float" -> v.val # 0
      [] v.kind = "bool" -> v.val
      [] v.kind = "list" -> v.val # <<>>
      [] v.kind = "dict" -> DOMAIN v.val # {}
      [] OTHER -> FALSE

\* f"{v}".
StrOf(v) == IF v.kind = "str" THEN v.val ELSE <<Shown(v)>>

\* str.lower(), over the letters the schemas use.
Lower(text) ==
    [i \in 1..Len(text) |->
        IF text[i] = Lit("String") THEN Lit("string") ELSE text[i]]

\* ------------------------------------------------- _gemini_schema_adapter
\* Lines 194-199, in the order the loop at line 200 visits them.
unsupported_keys ==
    <<"$schema", "additionalProperties", "patternProperties", "dependencies",
      "exclusiveMinimum", "exclusiveMaximum", "multipleOf", "const",
      "contentEncoding", "contentMediaType", "examples", "default",
      "readOnly", "writeOnly", "deprecated">>

\* Lines 122-127 and 378-383.
unsupported_fields == {unsupported_keys[i] : i \in 1..Len(unsupported_keys)}

SupportedFormatsAndEmail == {S("enum"), S("date-time"), S("email")}
SupportedFormats == {S("enum"), S("date-time")}

\* Lines 160-161.
IsStringType(d) ==
    /\ Has(d, "type")
    /\ d["type"].kind = "str"
    /\ Lower(d["type"].val) = <<Lit("string")>>

\* Lines 169-187.
format_descriptions ==
    [url |-> "Expected: valid URL format (e.g., https://example.com)",
     uri |-> "Expected: valid URI format",
     email |-> "Expected: valid email format (e.g., user@example.com)",
     hostname |-> "Expected: valid hostname format",
     ipv4 |-> "Expected: valid IPv4 address format (e.g., 192.168.1.1)",
     ipv6 |-> "Expected: valid IPv6 address format",
     uuid |-> "Expected: valid UUID format (e.g., 123e4567-e89b-12d3-a456-426614174000)",
     date |-> "Expected: valid date format (YYYY-MM-DD)",
     time |-> "Expected: valid time format (HH:MM:SS)",
     regex |-> "Expected: valid regular expression pattern",
     binary |-> "Expected: binary data format",
     byte |-> "Expected: base64-encoded binary data",
     password |-> "Expected: password string (will be handled securely)"]
    @@ ("json-pointer" :> "Expected: valid JSON pointer format")
    @@ ("relative-json-pointer" :> "Expected: valid relative JSON pointer format")

FormatHint(format_value) ==
    IF \E name \in DOMAIN format_descriptions : format_value = S(name)
    THEN <<Lit(format_descriptions[
               CHOOSE name \in DOMAIN format_descriptions : format_value = S(name)])>>
    ELSE <<Lit("Expected: ")>> \o StrOf(format_value) \o <<Lit(" format")>>

\* Lines 188-191 and 241-244: the hint joins the description.
WithHint(d, hint) ==
    LET current_desc == Get(d, "description", Str(<<>>))
    IN Put(d, "description",
           Str(IF Truthy(current_desc)
               THEN StrOf(current_desc) \o <<Lit(" | ")>> \o hint
               ELSE hint))

\* Lines 160-191.  The state of one call is the adapted schema so far and
\* unsupported_info.
FormatStep(d) ==
    IF IsStringType(d) /\ Has(d, "format") /\ d["format"] \notin SupportedFormats
    THEN [schema |-> WithHint(Del(d, "format"), FormatHint(d["format"])),
          info |-> <<<<Lit("format"), Lit(": ")>> \o StrOf(d["format"])>>]
    ELSE [schema |-> d, info |-> <<>>]

\* Line 187: dict.get hashes its key, and a dict or a list has no hash.
FormatHintRaises(d) ==
    /\ IsStringType(d) /\ Has(d, "format") /\ d["format"] \notin SupportedFormats
    /\ d["format"].kind \in {"dict", "list"}

\* isinstance(v, (int, float)), isinstance(v, int): bool is an int.
IsNumber(v) == v.kind \in {"int", "float", "bool"}
IsInt(v) == v.kind \in {"int", "bool"}
AsInt(v) == IF v.kind = "bool" THEN (IF v.val THEN 1 ELSE 0) ELSE v.val

\* Lines 205-220: the inclusive bound that replaces an exclusive one.
InclusiveBoundCopied(key, bound) == bound
InclusiveBound(key, bound) ==
    IF IsInt(bound)
    THEN Integer(IF key = "exclusiveMinimum" THEN AsInt(bound) + 1 ELSE AsInt(bound) - 1)
    ELSE bound

\* Lines 224-239.
FieldHint(key, value) ==
    CASE key = "multipleOf" -> <<Lit("Value must be multiple of ")>> \o StrOf(value)
      [] key = "const" -> <<Lit("Value must be exactly: "), Dumped(value)>>
      [] key = "examples" -> <<Lit("Example values: "), Dumped(value)>>
      [] key = "default" -> <<Lit("Default value: "), Dumped(value)>>
      [] key = "readOnly" ->
            IF Truthy(value) THEN <<Lit("This field is read-only")>> ELSE <<>>
      [] key = "writeOnly" ->
            IF Truthy(value) THEN <<Lit("This field is write-only")>> ELSE <<>>
      [] key = "deprecated" ->
            IF Truthy(value) THEN <<Lit("This field is deprecated")>> ELSE <<>>
      [] key = "contentEncoding" -> <<Lit("Content encoding: ")>> \o StrOf(value)
      [] key = "contentMediaType" -> <<Lit("Content media type: ")>> \o StrOf(value)
      [] key = "additionalProperties" -> <<Lit("Additional properties: "), Dumped(value)>>
      [] key = "patternProperties" -> <<Lit("Pattern properties: "), Dumped(value)>>
      [] key = "dependencies" -> <<Lit("Dependencies: "), Dumped(value)>>
      [] OTHER -> <<Lit(key), Lit(": "), Dumped(value)>>

\* Lines 201-248: one round of the loop over unsupported_keys.
RemoveKey(st, key) ==
    IF ~Has(st.schema, key) THEN st
    ELSE LET d == st.schema
             value == d[key]
             bound == InclusiveBound(key, value)
             limit == IF key = "exclusiveMinimum" THEN "minimum" ELSE "maximum"
             field_hint == FieldHint(key, value)
         IN IF key \in {"exclusiveMinimum", "exclusiveMaximum"} /\ IsNumber(value)
            THEN [schema |-> Del(Put(d, limit, bound), key),
                  info |-> Append(st.info,
                                  <<Lit(key), Lit(": ")>> \o StrOf(value)
                                      \o <<Lit(" -> "), Lit(limit), Lit(": ")>>
                                      \o StrOf(bound))]
            ELSE [schema |-> Del(IF field_hint # <<>> THEN WithHint(d, field_hint) ELSE d,
                                 key),
                  info |-> Append(st.info, <<Lit(key), Lit(": "), Dumped(value)>>)]

RECURSIVE RemoveKeys(_, _)
RemoveKeys(st, keys) ==
    IF keys = <<>> THEN st ELSE RemoveKeys(RemoveKey(st, Head(keys)), Tail(keys))

\* "; ".join(unsupported_info).
RECURSIVE Join(_)
Join(info) ==
    IF info = <<>> THEN <<>>
    ELSE IF Len(info) = 1 THEN info[1]
    ELSE info[1] \o <<Lit("; ")>> \o Join(Tail(info))

EndsWithMarker(description) ==
    /\ description.kind = "str"
    /\ description.val # <<>>
    /\ description.val[Len(description.val)] = Lit("(Removed for Gemini compatibility:")

\* Line 274: description.endswith is looked up whenever the description is
\* truthy, and only a str has it.
EndsWithRaises(d, info) ==
    /\ info # <<>>
    /\ Truthy(Get(d, "description", Str(<<>>)))
    /\ Get(d, "description", Str(<<>>)).kind # "str"

\* Lines 270-278.
TechnicalInfoUnguarded(d, info) ==
    LET description == Get(d, "description", Str(<<>>))
        marker == <<Lit("[Technical Info - Removed for Gemini compatibility: ")>>
                      \o Join(info) \o <<Lit("]")>>
    IN IF Truthy(description) /\ ~EndsWithMarker(description)
       THEN Put(d, "description", Str(StrOf(description) \o <<Lit("\n\n")>> \o marker))
       ELSE IF ~Truthy(description)
       THEN Put(d, "description", Str(marker))
       ELSE d
TechnicalInfo(d, info) ==
    LET description == Get(d, "description", Str(<<>>))
        marker == <<Lit("[Technical Info - Removed for Gemini compatibility: ")>>
                      \o Join(info) \o <<Lit("]")>>
    IN IF info = <<>> THEN d
       ELSE IF Truthy(description) /\ ~EndsWithMarker(description)
       THEN Put(d, "description", Str(StrOf(description) \o <<Lit("\n\n")>> \o marker))
       ELSE IF ~Truthy(description)
       THEN Put(d, "description", Str(marker))
       ELSE d

\* Lines 115-144.
RECURSIVE deep_clean_schema_formats(_)
deep_clean_schema_formats(obj) ==
    IF obj.kind = "dict"
    THEN LET d == obj.val
             kept == {key \in DOMAIN d :
                         /\ key \notin unsupported_fields
                         /\ (key = "format" /\ IsStringType(d))
                               => d[key] \in SupportedFormats}
         IN Dict([key \in kept |->
                     IF key = "format" /\ IsStringType(d) THEN d[key]
                     ELSE deep_clean_schema_formats(d[key])])
    ELSE IF obj.kind = "list"
    THEN List([i \in 1..Len(obj.val) |-> deep_clean_schema_formats(obj.val[i])])
    ELSE obj

\* Lines 250-267: the keys under which the adapter calls itself.
RecursedKeys == {"properties", "items", "anyOf", "oneOf", "allOf"}

\* Lines 146-283.
RECURSIVE gemini_schema_adapter(_)

AdaptEach(items) == [i \in 1..Len(items) |-> gemini_schema_adapter(items[i])]

\* Lines 250-254.
AdaptProperties(d) ==
    IF Has(d, "properties") /\ d["properties"].kind = "dict"
    THEN Put(d, "properties",
             Dict([name \in DOMAIN d["properties"].val |->
                      gemini_schema_adapter(d["properties"].val[name])]))
    ELSE d

\* Lines 256-261.
AdaptItems(d) ==
    IF Has(d, "items") /\ d["items"].kind = "dict"
    THEN Put(d, "items", gemini_schema_adapter(d["items"]))
    ELSE IF Has(d, "items") /\ d["items"].kind = "list"
    THEN Put(d, "items", List(AdaptEach(d["items"].val)))
    ELSE d

\* Lines 263-267.
AdaptComposed(d, key) ==
    IF Has(d, key) /\ d[key].kind = "list"
    THEN Put(d, key, List(AdaptEach(d[key].val)))
    ELSE d

AdaptBelow(d) ==
    AdaptComposed(AdaptComposed(AdaptComposed(AdaptItems(AdaptProperties(d)),
                                              "anyOf"), "oneOf"), "allOf")

\* What the recursive calls under one key returned or raised: d is the
\* schema before them, below the schema after them.
Results(d, below, key) ==
    IF ~Has(d, key) THEN {}
    ELSE IF key # "properties" /\ d[key].kind = "list"
    THEN {below[key].val[i] : i \in 1..Len(below[key].val)}
    ELSE IF key = "items" /\ d[key].kind = "dict"
    THEN {below[key]}
    ELSE IF key = "properties" /\ d[key].kind = "dict"
    THEN {below[key].val[name] : name \in DOMAIN below[key].val}
    ELSE {}

RaisedBelow(d, below) ==
    {result \in UNION {Results(d, below, key) : key \in RecursedKeys} :
        result.kind = "raised"}

\* Lines 269-283, or the exception of a recursive call.
Finish(d, below, info) ==
    IF RaisedBelow(d, below) # {} THEN CHOOSE result \in RaisedBelow(d, below) : TRUE
    ELSE IF EndsWithRaises(below, info) THEN Raised("AttributeError")
    ELSE deep_clean_schema_formats(Dict(TechnicalInfo(below, info)))

AfterRemoval(removed) ==
    Finish(removed.schema, AdaptBelow(removed.schema), removed.info)

gemini_schema_adapter(schema) ==
    IF schema.kind # "dict" THEN schema
    ELSE IF FormatHintRaises(schema.val) THEN Raised("TypeError")
    ELSE AfterRemoval(RemoveKeys(FormatStep(schema.val), unsupported_keys))

\* convert_claude_to_gemini, lines 375-398.
RECURSIVE validate_schema(_)
RECURSIVE ValidateEach(_)
ValidateEach(items) ==
    IF items = <<>> THEN 0 ELSE validate_schema(Head(items)) + ValidateEach(Tail(items))
RECURSIVE ValidateKeys(_, _)
ValidateKeys(d, keys) ==
    IF keys = {} THEN 0
    ELSE LET key == CHOOSE k \in keys : TRUE
             found ==
                 IF key \in unsupported_fields THEN 1
                 ELSE IF /\ key = "format"
                         /\ Has(d, "type") /\ d["type"] = S("string")
                         /\ d[key] \notin SupportedFormats
                 THEN 1
                 ELSE validate_schema(d[key])
         IN found + ValidateKeys(d, keys \ {key})
validate_schema(schema_obj) ==
    IF schema_obj.kind = "dict" THEN ValidateKeys(schema_obj.val, DOMAIN schema_obj.val)
    ELSE IF schema_obj.kind = "list" THEN ValidateEach(schema_obj.val)
    ELSE 0

\* --------------------------------------------------- tool input schemas
\* A dict from a set of <<key, value>> pairs with distinct keys.
MkDict(pairs) ==
    [key \in {p[1] : p \in pairs} |-> (CHOOSE p \in pairs : p[1] = key)[2]]

TypeChoices ==
    {{}, {<<"type", S("string")>>}, {<<"type", S("String")>>}}
FormatChoices ==
    {{}, {<<"format", S("email")>>}, {<<"format", S("date-time")>>},
     {<<"format", S("custom")>>}}
DescriptionChoices == {{}, {<<"description", S("d")>>}}
KeywordChoices ==
    {{},
     {<<"const", Integer(1)>>},
     {<<"readOnly", Bool(FALSE)>>},
     {<<"exclusiveMinimum", Integer(5)>>},
     {<<"exclusiveMinimum", Float(25)>>},
     {<<"exclusiveMaximum", Integer(5)>>},
     {<<"exclusiveMaximum", Float(25)>>},
     {<<"const", Integer(1)>>, <<"exclusiveMinimum", Integer(5)>>}}

WellFormedLeaves ==
    {Dict(MkDict(t \cup f \cup d \cup k)) :
        t \in TypeChoices, f \in FormatChoices, d \in DescriptionChoices,
        k \in KeywordChoices}

\* Nodes that are not schemas: a description or a type that is not a string,
\* a format that is not one, a non-numeric bound, non-schema values where
\* schemas are expected.
MalformedDescriptions ==
    {Integer(5), Integer(0), List(<<S("d")>>), List(<<>>), Null}
MalformedLeaves ==
    {Dict(MkDict({<<"description", d>>} \cup k)) :
        d \in MalformedDescriptions,
        k \in {{}, {<<"const", Integer(1)>>}, {<<"readOnly", Bool(FALSE)>>},
               {<<"exclusiveMinimum", Integer(5)>>}}}
    \cup {Dict(MkDict({<<"type", S("string")>>, <<"format", f>>})) :
              f \in {Integer(5), List(<<S("email")>>), Dict("a" :> Integer(1))}}
    \cup {Dict(MkDict({<<"type", t>>, <<"format", S("email")>>})) :
              t \in {Integer(5), List(<<S("string")>>)}}
    \cup {Dict(MkDict({<<"exclusiveMinimum", v>>})) : v \in {S("x"), Bool(TRUE), Null}}
    \cup {Dict(MkDict({<<key, v>>})) :
              key \in {"properties", "items", "anyOf"},
              v \in {S("x"), Integer(5), List(<<Integer(1), S("x"), Null>>),
                     Dict("p" :> Integer(5))}}

LeafSchemas == WellFormedLeaves \cup MalformedLeaves

\* The keys under which a schema holds another one.
Containers == {"properties", "items", "items[]", "anyOf", "allOf", "not"}
Under(container, child) ==
    CASE container = "properties" -> <<"properties", Dict("p" :> child)>>
      [] container = "items" -> <<"items", child>>
      [] container = "items[]" -> <<"items", List(<<child>>)>>
      [] container = "not" -> <<"not", child>>
      [] OTHER -> <<container, List(<<child>>)>>

ParentChoices ==
    {{}, {<<"description", S("d")>>}, {<<"const", Integer(1)>>}}

RECURSIVE Schemas(_)
Schemas(depth) ==
    IF depth = 0 THEN LeafSchemas
    ELSE LET children == Schemas(depth - 1)
         IN children \cup
            {Dict(MkDict(a \cup {Under(container, child)})) :
                a \in ParentChoices, container \in Containers, child \in children}

\* Tools with a parameter named like a keyword of JSON Schema, listed as
\* required, next to one with an ordinary name.
KeywordNames == {"default", "const", "examples", "deprecated", "q"}
KeywordNamedSchemas ==
    {Dict(MkDict({<<"type", S("object")>>,
                  <<"properties",
                    Dict(MkDict({<<name, Dict("type" :> S("string"))>>,
                                 <<"p", Dict("type" :> S("string"))>>}))>>,
                  <<"required", List(<<S(name)>>)>>})) :
        name \in KeywordNames}

\* Nodes that carry an inclusive and an exclusive bound of the same side.
BoundValues == {3, 6, 10}
DoubleBoundSchemas ==
    {Dict(MkDict({<<"type", S("integer")>>,
                  <<inclusive, Integer(m)>>,
                  <<exclusive, Integer(5)>>})) :
        m \in BoundValues,
        inclusive \in {"minimum", "maximum"},
        exclusive \in {"exclusiveMinimum", "exclusiveMaximum"}}

\* A request with one tool arrives.
InitTool ==
    /\ Idle
    /\ NoRequest
    /\ NoCache
    /\ fallback_client = FALSE
    /\ pc = "none"
    /\ ns_pc = "none"
    /\ tool_pc = "adapt"
    /\ original_schema \in {Some(schema) : schema \in Schemas(MaxSchemaDepth)}
                           \cup {Some(Dict(<<>>))}
                           \cup {Some(schema) : schema \in KeywordNamedSchemas}
                           \cup {Some(schema) : schema \in DoubleBoundSchemas}
    /\ adapted_schema = None
    /\ validation_issues = None
    /\ readapted_schema = None

\* What the tool loop leaves alone.
off_tool == <<fallback_client, streaming, non_streaming, conversion, content_cache,
              suspended>>

\* Lines 360-361.
AdaptSchema ==
    /\ tool_pc = "adapt"
    /\ adapted_schema' =
          Some(IF Truthy(The(original_schema))
               THEN gemini_schema_adapter(The(original_schema))
               ELSE Dict(<<>>))
    /\ tool_pc' = IF The(adapted_schema').kind = "raised" THEN "raised" ELSE "validate"
    /\ UNCHANGED <<original_schema, validation_issues, readapted_schema>>
    /\ UNCHANGED off_tool

\* Lines 375-402.
ValidateSchema ==
    /\ tool_pc = "validate"
    /\ validation_issues' = Some(validate_schema(The(adapted_schema)))
    /\ tool_pc' = "adapted"
    /\ UNCHANGED <<original_schema, adapted_schema, readapted_schema>>
    /\ UNCHANGED off_tool

\* The adapted schema is given to the adapter once more.
AdaptAgain ==
    /\ tool_pc = "adapted"
    /\ readapted_schema' = Some(gemini_schema_adapter(The(adapted_schema)))
    /\ tool_pc' = "done"
    /\ UNCHANGED <<original_schema, adapted_schema, validation_issues>>
    /\ UNCHANGED off_tool

NextTool ==
    \/ AdaptSchema
    \/ ValidateSchema
    \/ AdaptAgain

SpecTool == InitTool /\ [][NextTool]_vars

\* ------------------------------------------------- inbound request bodies
\* Text is a sequence of pieces; the empty string is the empty sequence.
\* A key that is absent from a JSON object is None.  A number with a
\* fraction is given in tenths.
WireBlock(type) ==
    [type |-> type, text |-> None, source |-> None, id |-> None, name |-> None,
     input |-> None, tool_use_id |-> None, content |-> None,
     thought_signature |-> None]
TextBlock(text, signature) ==
    [WireBlock("text") EXCEPT !.text = Some(text), !.thought_signature = signature]
ImageBlock(source) ==
    [WireBlock("image") EXCEPT !.source = Some(source)]
ToolUseBlock(id, name, input, signature) ==
    [WireBlock("tool_use") EXCEPT !.id = Some(id), !.name = Some(name),
                                  !.input = Some(input),
                                  !.thought_signature = signature]
ToolResultBlock(tool_use_id, content, signature) ==
    [WireBlock("tool_result") EXCEPT !.tool_use_id = Some(tool_use_id),
                                     !.content = Some(content),
                                     !.thought_signature = signature]

\* The source of an image: base64 data that decodes or does not, or a URL.
Base64(decodes) == [decodes |-> decodes, bytes |-> <<"image-bytes">>]
ImageSources ==
    {[type |-> Some("base64"), data |-> Some(Base64(TRUE)), media_type |-> Some("image/jpeg")],
     [type |-> Some("base64"), data |-> Some(Base64(TRUE)), media_type |-> None],
     [type |-> Some("base64"), data |-> Some(Base64(FALSE)), media_type |-> Some("image/jpeg")],
     [type |-> Some("url"), data |-> None, media_type |-> None]}

BlockChoices ==
    {TextBlock(<<"a">>, None), TextBlock(<<"a">>, Some("sig1")), TextBlock(<<>>, None),
     ToolUseBlock("toolu_1", "f", <<>>, None),
     ToolUseBlock("toolu_1", "f", <<"x">>, Some("sig2")),
     ToolResultBlock("toolu_1", <<"r">>, None),
     ToolResultBlock("toolu_1", <<"r">>, Some("sig3"))}
    \cup {ImageBlock(source) : source \in ImageSources}

StrContent(text) == [kind |-> "str", val |-> text]
ListContent(blocks) == [kind |-> "list", val |-> blocks]
Message(role, content) == [role |-> role, content |-> content]

\* Messages told apart by their text.
SimpleMessages ==
    {Message("user", StrContent(<<"m1">>)),
     Message("assistant", StrContent(<<"m2">>)),
     Message("user", ListContent(<<>>)),
     Message("assistant", ListContent(<<TextBlock(<<"m3">>, None)>>))}

SystemChoices ==
    {None, Some(StrContent(<<"s">>)), Some(StrContent(<<>>)),
     Some(ListContent(<<[type |-> "text", text |-> <<"s1">>],
                        [type |-> "text", text |-> <<"s2">>]>>)),
     Some(ListContent(<<>>))}

ToolDefinition(name, description, input_schema) ==
    [name |-> name, description |-> description, input_schema |-> input_schema]
ToolsChoices ==
    {None, Some(<<>>),
     Some(<<ToolDefinition(<<"get", "_weather">>, None,
                           Dict(MkDict({<<"type", S("string")>>,
                                        <<"format", S("email")>>})))>>),
     Some(<<ToolDefinition(<<"calc">>, Some(<<"adds">>), Dict(<<>>)),
            ToolDefinition(<<"todo">>, Some(<<>>), Dict(<<>>))>>)}

ToolChoiceChoices ==
    {None, Some(<<>>)}
    \cup {Some("type" :> type) : type \in {"auto", "any", "none", "tool", "required"}}
    \cup {Some(("type" :> "tool") @@ ("name" :> name)) : name \in {"f", "g"}}
    \cup {Some("name" :> "f")}

ThinkingChoices ==
    {None}
    \cup {Some([enabled |-> enabled, budget |-> budget, include_thoughts |-> include]) :
              enabled \in {None, Some(TRUE), Some(FALSE)},
              budget \in {None, Some(0), Some(2000), Some(-1)},
              include \in {None, Some(TRUE), Some(FALSE)}}

ModelNames ==
    {<<"claude-3-", "haiku">>, <<"claude-", "Sonnet", "-4">>, <<"gemini-2.5-", "pro">>,
     <<"claude-", "OPUS">>, <<"BIG">>, <<"gemini-2.5-", "flash">>}

BaseBody ==
    [model |-> <<"claude-3-", "haiku">>, max_tokens |-> Some(100),
     messages |-> <<Message("user", StrContent(<<"m1">>))>>,
     system |-> None, stop_sequences |-> None, temperature |-> None,
     top_p |-> None, top_k |-> None, tools |-> None, tool_choice |-> None,
     thinking |-> None]

\* One message of up to MaxBlocks blocks.
BlockBodies ==
    {[BaseBody EXCEPT !.messages = <<Message(role, ListContent(blocks))>>] :
        role \in {"user", "assistant"}, blocks \in SeqsUpTo(BlockChoices, MaxBlocks)}

\* A system prompt or none, tools or none, up to MaxMessages messages.
SystemBodies ==
    {[BaseBody EXCEPT !.system = system, !.tools = tools, !.messages = messages] :
        system \in SystemChoices, tools \in ToolsChoices,
        messages \in SeqsUpTo(SimpleMessages, MaxMessages)}

\* The generation parameters and the tool choice.
ConfigBodies ==
    {[BaseBody EXCEPT !.temperature = temperature, !.top_p = top_p, !.top_k = top_k,
                      !.stop_sequences = stop_sequences, !.max_tokens = max_tokens,
                      !.tool_choice = tool_choice] :
        temperature \in {None, Some(5)}, top_p \in {None, Some(9)},
        top_k \in {None, Some(40)},
        stop_sequences \in {None, Some(<<>>), Some(<<"stop">>)},
        max_tokens \in {Some(100)},
        tool_choice \in ToolChoiceChoices}

\* The thinking configuration and the model name.
ThinkingBodies ==
    {[BaseBody EXCEPT !.thinking = thinking, !.model = model] :
        thinking \in ThinkingChoices, model \in ModelNames}

\* ------------------------------------------------------- models/claude.py
\* The content block classes declare no thought_signature field, and a
\* field a model does not declare is dropped when the body is validated.
ParseBlock(block) ==
    CASE block.type = "text" -> [type |-> "text", text |-> The(block.text)]
      [] block.type = "image" -> [type |-> "image", source |-> The(block.source)]
      [] block.type = "tool_use" ->
            [type |-> "tool_use", id |-> The(block.id), name |-> The(block.name),
             input |-> The(block.input)]
      [] block.type = "tool_result" ->
            [type |-> "tool_result", tool_use_id |-> The(block.tool_use_id),
             content |-> The(block.content)]

ParseMessage(msg) ==
    [role |-> msg.role,
     content |-> IF msg.content.kind = "str" THEN msg.content
                 ELSE ListContent([i \in 1..Len(msg.content.val) |->
                                      ParseBlock(msg.content.val[i])])]

\* ClaudeThinkingConfig: enabled defaults to True, include_thoughts to False.
ParseThinking(thinking) ==
    [enabled |-> IF thinking.enabled = None THEN TRUE ELSE The(thinking.enabled),
     budget |-> thinking.budget,
     include_thoughts |->
         IF thinking.include_thoughts = None THEN FALSE
         ELSE The(thinking.include_thoughts)]

\* ClaudeMessagesRequest: temperature defaults to 1.0, the other optional
\* fields to None.
DefaultTemperature == Some(10)

ParseRequestBody(json_body) ==
    [json_body EXCEPT
        !.max_tokens = The(json_body.max_tokens),
        !.messages = [i \in 1..Len(json_body.messages) |->
                         ParseMessage(json_body.messages[i])],
        !.temperature = IF json_body.temperature = None THEN DefaultTemperature
                        ELSE json_body.temperature,
        !.thinking = IF json_body.thinking = None THEN None
                     ELSE Some(ParseThinking(The(json_body.thinking)))]

\* ------------------------------------------------ convert_claude_to_gemini
\* getattr(obj, name, None).
Attr(obj, name) == IF name \in DOMAIN obj THEN Some(obj[name]) ELSE None

\* " ".join(texts).
RECURSIVE JoinSpace(_)
JoinSpace(texts) ==
    IF texts = <<>> THEN <<>>
    ELSE IF Len(texts) = 1 THEN texts[1]
    ELSE texts[1] \o <<" ">> \o JoinSpace(Tail(texts))

\* Lines 50-72.
ToolEnhancement == "CRITICAL TOOL USAGE INSTRUCTIONS"
enhance_system_prompt_always(original_prompt, has_tools) ==
    original_prompt \o <<ToolEnhancement>>
enhance_system_prompt(original_prompt, has_tools) ==
    IF has_tools THEN original_prompt \o <<ToolEnhancement>> ELSE original_prompt

Acknowledgment == "acknowledgment"

\* bool(request.tools), bool(request.system).
HasTools(req) == req.tools # None /\ The(req.tools) # <<>>
HasSystem(req) == req.system # None /\ The(req.system).val # <<>>

\* Line 288.
SystemText(system) ==
    IF system.kind = "str" THEN system.val
    ELSE JoinSpace([i \in 1..Len(system.val) |-> system.val[i].text])

\* Lines 286-296.
SystemContents(req) ==
    IF HasSystem(req)
    THEN <<[role |-> "user",
            parts |-> <<[text |-> enhance_system_prompt(SystemText(The(req.system)),
                                                        HasTools(req))]>>],
           [role |-> "model", parts |-> <<[text |-> <<Acknowledgment>>]>>]>>
    ELSE <<>>

\* Lines 344-348.
WithSignature(part_data, thought_signature) ==
    IF thought_signature # None /\ The(thought_signature) # ""
    THEN part_data @@ ("thought_signature" :> The(thought_signature))
    ELSE part_data

\* Lines 309-336: the binary part of an image block, if it has one.
ImageParts(block) ==
    LET source == block.source
    IN IF /\ source.type = Some("base64")
          /\ source.data # None
          /\ The(source.data).decodes
       THEN <<[inline_data |->
                  [data |-> The(source.data).bytes,
                   mime_type |-> IF source.media_type # None THEN The(source.media_type)
                                 ELSE "image/png"]]>>
       ELSE <<>>

\* Lines 305-351: the parts one content block contributes.
BlockParts(block) ==
    LET thought_signature == Attr(block, "thought_signature")
    IN CASE block.type = "text" ->
              <<WithSignature([text |-> block.text], thought_signature)>>
         [] block.type = "image" -> ImageParts(block)
         [] block.type = "tool_use" ->
              <<WithSignature([function_call |-> [name |-> block.name, args |-> block.input]],
                              thought_signature)>>
         [] block.type = "tool_result" ->
              <<WithSignature([function_response |->
                                  [name |-> block.tool_use_id,
                                   response |-> [result |-> block.content]]],
                              thought_signature)>>

RECURSIVE PartsOfBlocks(_)
PartsOfBlocks(blocks) ==
    IF blocks = <<>> THEN <<>>
    ELSE BlockParts(Head(blocks)) \o PartsOfBlocks(Tail(blocks))

\* Lines 299-353: the content entry of one message, if it has parts.
Role(role) == IF role = "user" THEN "user" ELSE "model"

MessageContents(msg) ==
    LET msg_parts == IF msg.content.kind = "str"
                     THEN <<[text |-> msg.content.val]>>
                     ELSE PartsOfBlocks(msg.content.val)
    IN IF msg_parts # <<>>
       THEN <<[role |-> Role(msg.role), parts |-> msg_parts]>>
       ELSE <<>>

RECURSIVE MessagesContents(_)
MessagesContents(messages) ==
    IF messages = <<>> THEN <<>>
    ELSE MessageContents(Head(messages)) \o MessagesContents(Tail(messages))

\* Lines 14-48: the prefix chosen by the first keyword list that has a
\* keyword in the lower-cased tool name, over the pieces the tool names use
\* (none of them has a keyword of the file or of the analysis list).
ToolPrefix(tool_name) ==
    IF \E i \in 1..Len(tool_name) : tool_name[i] = "get" THEN "CRITICAL SEARCH TOOL: "
    ELSE IF \E i \in 1..Len(tool_name) : tool_name[i] = "todo" THEN "REQUIRED TASK TOOL: "
    ELSE "ACTIVE TOOL USE REQUIRED: "
enhance_tool_description(tool_name, original_description) ==
    <<ToolPrefix(tool_name)>>
    \o (IF original_description = <<>> THEN <<"Tool: ">> \o tool_name
        ELSE original_description)

\* Lines 359-361 and 405-413.
AdaptedTool(tool) ==
    [function_declarations |->
        <<[name |-> tool.name,
           description |->
               enhance_tool_description(tool.name,
                                        IF tool.description = None THEN <<>>
                                        ELSE The(tool.description)),
           parameters |-> IF Truthy(tool.input_schema)
                          THEN gemini_schema_adapter(tool.input_schema)
                          ELSE Dict(<<>>)]>>]

\* Lines 417-423.
mode_map == [any |-> "ANY", auto |-> "AUTO", none |-> "NONE"]
ToolConfigAny(tool_choice) ==
    IF "type" \in DOMAIN tool_choice /\ tool_choice["type"] \in DOMAIN mode_map
    THEN Some([function_calling_config |-> [mode |-> mode_map[tool_choice["type"]]]])
    ELSE IF "type" \in DOMAIN tool_choice /\ tool_choice["type"] = "tool"
    THEN Some([function_calling_config |-> [mode |-> "ANY"]])
    ELSE None
ToolConfig(tool_choice) ==
    IF "type" \in DOMAIN tool_choice /\ tool_choice["type"] \in DOMAIN mode_map
    THEN Some([function_calling_config |-> [mode |-> mode_map[tool_choice["type"]]]])
    ELSE IF "type" \in DOMAIN tool_choice /\ tool_choice["type"] = "tool"
    THEN Some([function_calling_config |->
                  [mode |-> "ONE",
                   allowed_function_names |-> <<Attr(tool_choice, "name")>>]])
    ELSE None

\* Lines 428-435.
config_fields ==
    [temperature |-> "temperature", max_tokens |-> "max_output_tokens",
     top_p |-> "top_p", top_k |-> "top_k", stop_sequences |-> "stop_sequences"]

GenConfig(req) ==
    LET given == {claude_key \in DOMAIN config_fields :
                     IF claude_key = "max_tokens" THEN TRUE ELSE req[claude_key] # None}
    IN [gemini_key \in {config_fields[claude_key] : claude_key \in given} |->
           LET claude_key == CHOOSE k \in given : config_fields[k] = gemini_key
           IN IF claude_key = "max_tokens" THEN req[claude_key] ELSE The(req[claude_key])]

\* core/config.py lines 29-30, the environment not set.
big_model_thinking_budget == 5000
small_model_thinking_budget == 1000

\* str.lower(), over the pieces the model names use.
LowerName(model) ==
    [i \in 1..Len(model) |->
        CASE model[i] = "Sonnet" -> "sonnet"
          [] model[i] = "OPUS" -> "opus"
          [] model[i] = "BIG" -> "big"
          [] OTHER -> model[i]]

\* Line 461.
BigModelKeywords == {"pro", "opus", "sonnet", "big"}
IsBigModelCased(model) ==
    \E i \in 1..Len(model) : model[i] \in BigModelKeywords
IsBigModel(model) ==
    \E i \in 1..Len(model) : LowerName(model)[i] \in BigModelKeywords

\* Lines 443-448.
ThinkingEnabled(req, by_default) ==
    IF req.thinking # None THEN The(req.thinking).enabled ELSE by_default

\* Lines 450-471.
ThinkingConfig(req) ==
    LET budget ==
            IF req.thinking # None /\ The(req.thinking).budget # None
            THEN The(The(req.thinking).budget)
            ELSE IF IsBigModel(req.model) THEN big_model_thinking_budget
            ELSE small_model_thinking_budget
    IN IF req.thinking # None /\ The(req.thinking).include_thoughts
       THEN [thinking_budget |-> budget, include_thoughts |-> TRUE]
       ELSE [thinking_budget |-> budget]

\* A request arrives.
InitRequest ==
    /\ Idle
    /\ fallback_client = FALSE
    /\ NoTool
    /\ NoCache
    /\ pc = "none"
    /\ ns_pc = "none"
    /\ rq_pc = "parse"
    /\ \/ /\ body \in {Some(b) : b \in BlockBodies \cup SystemBodies \cup ConfigBodies}
          /\ enable_thinking_by_default = FALSE
       \/ /\ body \in {Some(b) : b \in ThinkingBodies}
          /\ enable_thinking_by_default \in BOOLEAN
    /\ request = None
    /\ contents = <<>>
    /\ gemini_request_data = None

\* What the conversion of a request leaves alone.
off_request == <<fallback_client, streaming, non_streaming, tool_schema,
                 content_cache, suspended>>

\* api/endpoints.py line 23: the body is validated into the request model.
ParseRequest ==
    /\ rq_pc = "parse"
    /\ request' = Some(ParseRequestBody(The(body)))
    /\ rq_pc' = "system"
    /\ UNCHANGED <<body, contents, gemini_request_data, enable_thinking_by_default>>
    /\ UNCHANGED off_request

\* Lines 286-296.
ConvertSystem ==
    /\ rq_pc = "system"
    /\ contents' = SystemContents(The(request))
    /\ rq_pc' = "messages"
    /\ UNCHANGED <<body, request, gemini_request_data, enable_thinking_by_default>>
    /\ UNCHANGED off_request

\* Lines 298-355.
ConvertMessages ==
    /\ rq_pc = "messages"
    /\ contents' = contents \o MessagesContents(The(request).messages)
    /\ gemini_request_data' = Some("contents" :> contents')
    /\ rq_pc' = "tools"
    /\ UNCHANGED <<body, request, enable_thinking_by_default>>
    /\ UNCHANGED off_request

\* Lines 357-415.
ConvertTools ==
    /\ rq_pc = "tools"
    /\ LET tools == The(request).tools
           adapted_tools == [i \in 1..Len(The(tools)) |-> AdaptedTool(The(tools)[i])]
       IN gemini_request_data' =
             IF HasTools(The(request))
             THEN Some(The(gemini_request_data) @@ ("tools" :> adapted_tools))
             ELSE gemini_request_data
    /\ rq_pc' = "tool_choice"
    /\ UNCHANGED <<body, request, contents, enable_thinking_by_default>>
    /\ UNCHANGED off_request

\* Lines 417-426.
ConvertToolChoice ==
    /\ rq_pc = "tool_choice"
    /\ LET tool_choice == The(request).tool_choice
       IN gemini_request_data' =
             IF /\ tool_choice # None
                /\ DOMAIN The(tool_choice) # {}
                /\ ToolConfig(The(tool_choice)) # None
             THEN Some(The(gemini_request_data)
                       @@ ("tool_config" :> The(ToolConfig(The(tool_choice)))))
             ELSE gemini_request_data
    /\ rq_pc' = "generation_config"
    /\ UNCHANGED <<body, request, contents, enable_thinking_by_default>>
    /\ UNCHANGED off_request

\* Lines 428-437.
ConvertGenerationConfig ==
    /\ rq_pc = "generation_config"
    /\ LET gen_config == GenConfig(The(request))
       IN gemini_request_data' =
             IF DOMAIN gen_config # {}
             THEN Some(The(gemini_request_data) @@ ("generation_config" :> gen_config))
             ELSE gemini_request_data
    /\ rq_pc' = "thinking"
    /\ UNCHANGED <<body, request, contents, enable_thinking_by_default>>
    /\ UNCHANGED off_request

\* Lines 439-479.
ConvertThinking ==
    /\ rq_pc = "thinking"
    /\ gemini_request_data' =
          IF ThinkingEnabled(The(request), enable_thinking_by_default)
          THEN Some(The(gemini_request_data)
                    @@ ("thinking_config" :> ThinkingConfig(The(request))))
          ELSE gemini_request_data
    /\ rq_pc' = "done"
    /\ UNCHANGED <<body, request, contents, enable_thinking_by_default>>
    /\ UNCHANGED off_request

NextRequest ==
    \/ ParseRequest
    \/ ConvertSystem
    \/ ConvertMessages
    \/ ConvertTools
    \/ ConvertToolChoice
    \/ ConvertGenerationConfig
    \/ ConvertThinking

SpecRequest == InitRequest /\ [][NextRequest]_vars

\* ------------------------------------------------------------- observations
IsToolStart(e) == e.type = "content_block_start" /\ e.block = "tool_use"
IsTextDelta(e) == e.type = "content_block_delta" /\ e.delta = "text_delta"
IsThinkingDelta(e) == IsTextDelta(e) /\ e.text # <<>> /\ e.text[1] = "<thinking>"
IsRegularDelta(e) == IsTextDelta(e) /\ ~IsThinkingDelta(e)

IsReasoningPart(p) == p.text # <<>> /\ p.thought
IsTextPart(p) == p.text # <<>> /\ ~p.thought
IsCallPart(p) == p.text = <<>> /\ p.function_call # None

RECURSIVE AllParts(_)
AllParts(h) ==
    IF h = <<>> THEN <<>>
    ELSE (IF h[1].type = "chunk" /\ h[1].candidates # <<>>
          THEN h[1].candidates[1].content.parts ELSE <<>>) \o AllParts(Tail(h))

\* The parts received whose handling has run.
ProcessedParts ==
    LET all == AllParts(recv) IN SubSeq(all, 1, Len(all) - Len(parts))

EndedNormally == out # <<>> /\ out[Len(out)].type = "[DONE]"

\* ------------------------------------------------- two concurrent calls
\* Lines 154-175: the state of a call is held by the locals of its generator
\* and of the gateway generator it consumes, and by its transport.  The
\* event loop runs one call at a time; a call is suspended at its awaits
\* and yields and goes on later with its own frame.
Frame ==
    [response |-> response, pc |-> pc, gw |-> gw, requested |-> requested,
     recv |-> recv, cur |-> cur, parts |-> parts, pending |-> pending, out |-> out,
     chunk_count |-> chunk_count, content_block_index |-> content_block_index,
     final_stop_reason |-> final_stop_reason, usage_data |-> usage_data,
     thinking_buffer |-> thinking_buffer, thinking_active |-> thinking_active,
     thinking_sent |-> thinking_sent]

\* The frame of a call whose StreamingResponse was just created.
NewFrame ==
    [response |-> "streaming", pc |-> "start", gw |-> "unstarted", requested |-> 0,
     recv |-> <<>>, cur |-> None, parts |-> <<>>, pending |-> <<>>, out |-> <<>>,
     chunk_count |-> 0, content_block_index |-> 0,
     final_stop_reason |-> "end_turn", usage_data |-> InitUsage,
     thinking_buffer |-> <<>>, thinking_active |-> FALSE, thinking_sent |-> FALSE]

\* Two streaming requests were accepted; neither generator has started.
InitPair ==
    /\ NoTool
    /\ NoRequest
    /\ NoCache
    /\ ns_pc = "none"
    /\ endpoint_calls = <<>>
    /\ api_response = None
    /\ http_response = None
    /\ fallback_client = FALSE
    /\ response = "streaming"
    /\ pc = "start"
    /\ gw = "unstarted"
    /\ requested = 0
    /\ recv = <<>>
    /\ cur = None
    /\ parts = <<>>
    /\ pending = <<>>
    /\ out = <<>>
    /\ chunk_count = 0
    /\ content_block_index = 0
    /\ final_stop_reason = "end_turn"
    /\ usage_data = InitUsage
    /\ thinking_buffer = <<>>
    /\ thinking_active = FALSE
    /\ thinking_sent = FALSE
    /\ suspended = Some(NewFrame)

\* Line 164: content_block_index is a local of the generator; the call that
\* goes on finds the value it left.
RestoredIndexShared(frame) == content_block_index
RestoredIndex(frame) == frame.content_block_index

\* The event loop suspends the running call and resumes the other one.
Switch ==
    /\ suspended # None
    /\ LET frame == The(suspended)
       IN /\ response' = frame.response
          /\ pc' = frame.pc
          /\ gw' = frame.gw
          /\ requested' = frame.requested
          /\ recv' = frame.recv
          /\ cur' = frame.cur
          /\ parts' = frame.parts
          /\ pending' = frame.pending
          /\ out' = frame.out
          /\ chunk_count' = frame.chunk_count
          /\ content_block_index' = RestoredIndex(frame)
          /\ final_stop_reason' = frame.final_stop_reason
          /\ usage_data' = frame.usage_data
          /\ thinking_buffer' = frame.thinking_buffer
          /\ thinking_active' = frame.thinking_active
          /\ thinking_sent' = frame.thinking_sent
    /\ suspended' = Some(Frame)
    /\ UNCHANGED <<fallback_client, non_streaming, tool_schema, conversion,
                   content_cache>>

NextPair ==
    \/ Deliver
    \/ Start
    \/ PrimaryYield
    \/ PrimaryEnds
    \/ ProcessPart
    \/ EndChunk
    \/ Drain
    \/ Switch

SpecPair == InitPair /\ [][NextPair]_vars

\* ------------------------------------------ core/gemini_client.py: the cache
\* Contents long enough to be cached, and the models they are sent to.
CacheContents == {"a", "b"}
CacheModels == {"gemini-2.5-pro"}

\* Lines 82-85: the first 16 hex digits of the SHA-256 digest of the content.
ContentHash(content) ==
    CASE content = "a" -> "ca978112ca1bbdca"
      [] content = "b" -> "3e23e8160039594a"
generate_cache_key(content, model) == <<"cache_", model, "_", ContentHash(content)>>

\* Line 103: the entry is valid as long as now is before its expiry time.
IsValid(now, cache_info) == now < cache_info.expire_time

\* Line 107: a hit is counted.
HitUncounted(cache_info) == cache_info
Hit(cache_info) == [cache_info EXCEPT !.hit_count = @ + 1]

\* Lines 124-132: the entry store writes (the fields the cache reads again).
NewEntry(now, ttl) == [expire_time |-> now + ttl, hit_count |-> 1]

\* A client is constructed without a cache file: the store is empty.
InitCache ==
    /\ Idle
    /\ NoTool
    /\ NoRequest
    /\ fallback_client = FALSE
    /\ pc = "none"
    /\ ns_pc = "none"
    /\ cache_store = <<>>
    /\ default_cache_ttl \in {0, 1, 2}
    /\ clock = 0
    /\ cache_log = <<>>

\* What the cache operations leave alone.
off_cache == <<fallback_client, streaming, non_streaming, tool_schema, conversion,
               suspended>>

\* Lines 93-118.
check_content_cache ==
    /\ Len(cache_log) < MaxCacheOps
    /\ \E content \in CacheContents, model \in CacheModels :
          LET cache_key == generate_cache_key(content, model)
              found == cache_key \in DOMAIN cache_store
              valid == found /\ IsValid(clock, cache_store[cache_key])
          IN /\ cache_store' =
                   IF valid THEN Put(cache_store, cache_key, Hit(cache_store[cache_key]))
                   ELSE IF found THEN Del(cache_store, cache_key)
                   ELSE cache_store
             /\ cache_log' = Append(cache_log,
                                    [op |-> "check", key |-> cache_key, now |-> clock,
                                     result |-> IF valid THEN Some(cache_key) ELSE None])
    /\ UNCHANGED <<default_cache_ttl, clock>>
    /\ UNCHANGED off_cache

\* Lines 120-138.
store_content_cache ==
    /\ Len(cache_log) < MaxCacheOps
    /\ \E content \in CacheContents, model \in CacheModels :
          LET cache_key == generate_cache_key(content, model)
          IN /\ cache_store' = Put(cache_store, cache_key,
                                   NewEntry(clock, default_cache_ttl))
             /\ cache_log' = Append(cache_log,
                                    [op |-> "store", key |-> cache_key, now |-> clock,
                                     result |-> Some(cache_key)])
    /\ UNCHANGED <<default_cache_ttl, clock>>
    /\ UNCHANGED off_cache

\* Time passes between two operations.
Tick ==
    /\ clock < MaxClock
    /\ clock' = clock + 1
    /\ UNCHANGED <<cache_store, default_cache_ttl, cache_log>>
    /\ UNCHANGED off_cache

NextCache ==
    \/ check_content_cache
    \/ store_content_cache
    \/ Tick

SpecCache == InitCache /\ [][NextCache]_vars

\* ------------------------------------------------------------------- claims
\* C1: the k-th function-call part opens its tool-use block at index k, so
\* tool-call block indices are strictly increasing, never reused and never 0,
\* however text parts interleave with the calls.
C1_ToolIndexMonotonic ==
    LET starts == SelectSeq(out, IsToolStart)
        calls == SelectSeq(ProcessedParts, IsCallPart)
    IN /\ \A k \in 1..Len(starts) : starts[k].index = k
       /\ Len(starts) <= Len(calls)
       /\ (pending = <<>> /\ response = "streaming") => Len(starts) = Len(calls)

C1_Witness ==
    \E i, j, k \in 1..Len(out) :
        /\ i < j /\ j < k
        /\ IsToolStart(out[i]) /\ IsRegularDelta(out[j]) /\ IsToolStart(out[k])
        /\ out[k].index = 2

\* C2: every content_block_delta carrying regular text is emitted at index 0,
\* also when the text part arrives after function-call parts.
C2_RegularTextAtIndexZero ==
    \A i \in 1..Len(out) : IsRegularDelta(out[i]) => out[i].index = 0

\* C3: per block index, content_block_start and content_block_stop are each
\* emitted at most once, stop only after start, and no delta before the start
\* or after the stop of its index.
C3_BlocksWellFormed ==
    \A i \in 1..Len(out) :
        /\ out[i].type = "content_block_start" =>
              \A j \in 1..Len(out) :
                  (out[j].type = "content_block_start" /\ out[j].index = out[i].index)
                      => j = i
        /\ out[i].type = "content_block_stop" =>
              /\ \A j \in 1..Len(out) :
                    (out[j].type = "content_block_stop" /\ out[j].index = out[i].index)
                        => j = i
              /\ \E j \in 1..(i - 1) :
                    out[j].type = "content_block_start" /\ out[j].index = out[i].index
        /\ out[i].type = "content_block_delta" =>
              /\ \E j \in 1..(i - 1) :
                    out[j].type = "content_block_start" /\ out[j].index = out[i].index
              /\ ~\E j \in 1..(i - 1) :
                    out[j].type = "content_block_stop" /\ out[j].index = out[i].index

RECURSIVE ReasoningOf(_)
ReasoningOf(ps) ==
    IF ps = <<>> THEN <<>>
    ELSE (IF IsReasoningPart(ps[1]) THEN ps[1].text ELSE <<>>) \o ReasoningOf(Tail(ps))

PartStep ==
    pc = "parts" /\ pending = <<>> /\ parts # <<>> /\ parts' = Tail(parts) /\ pc' = pc

C4_ReasoningSilent ==
    (PartStep /\ IsReasoningPart(Head(parts))) => (pending' = <<>> /\ out' = out)

C4_FlushBeforeFirstText ==
    (/\ PartStep
     /\ IsTextPart(Head(parts))
     /\ ReasoningOf(ProcessedParts) # <<>>
     /\ \A i \in 1..Len(ProcessedParts) : ~IsTextPart(ProcessedParts[i]))
    => /\ \A i \in 1..Len(out) : ~IsThinkingDelta(out[i])
       /\ Len(pending') = 2
       /\ pending'[1] =
             [type |-> "content_block_delta", index |-> 0, delta |-> "text_delta",
              text |-> <<"<thinking>", "\n">> \o ReasoningOf(ProcessedParts)
                           \o <<"\n", "</thinking>">>,
              thought_signature |-> None]
       /\ IsRegularDelta(pending'[2])
       /\ pending'[2].text = Head(parts).text

C4_Adjacent ==
    \A i \in 1..Len(out) :
        (IsThinkingDelta(out[i]) /\ i < Len(out)) =>
            \/ IsRegularDelta(out[i + 1])
            \/ out[i + 1] = [type |-> "content_block_stop", index |-> 0]

\* C4: reasoning parts emit nothing when received; the first regular text
\* after them emits exactly one delta at index 0 carrying the wrapped
\* concatenation of all reasoning text so far, immediately followed by the
\* delta carrying the regular text.
C4_ReasoningBuffering ==
    /\ [][C4_ReasoningSilent]_vars
    /\ [][C4_FlushBeforeFirstText]_vars
    /\ []C4_Adjacent

C4_Witness ==
    \E i \in 1..Len(out) :
        /\ i < Len(out)
        /\ out[i].type = "content_block_delta"
        /\ out[i].text = <<"<thinking>", "\n", "a", "b", "\n", "</thinking>">>
        /\ out[i + 1].type = "content_block_delta"
        /\ out[i + 1].text = <<"c">>

ThinkingDeltas == {i \in 1..Len(out) : IsThinkingDelta(out[i])}

\* C5: the wrapped-reasoning delta is emitted at most once; in a stream that
\* ends normally it is emitted exactly once if a non-empty reasoning part
\* was received, and if no regular text arrived it is emitted at index 0
\* during Drain, right before content_block_stop at index 0.
C5_FlushedOnce ==
    /\ Cardinality(ThinkingDeltas) <= 1
    /\ EndedNormally =>
          /\ (\E i \in 1..Len(AllParts(recv)) : IsReasoningPart(AllParts(recv)[i]))
                <=> Cardinality(ThinkingDeltas) = 1
          /\ (/\ \E i \in 1..Len(AllParts(recv)) : IsReasoningPart(AllParts(recv)[i])
              /\ \A i \in 1..Len(AllParts(recv)) : ~IsTextPart(AllParts(recv)[i]))
             => \E i \in ThinkingDeltas :
                   /\ out[i].index = 0
                   /\ out[i + 1] = [type |-> "content_block_stop", index |-> 0]
                   /\ i + 4 = Len(out)

C5_Witness ==
    /\ EndedNormally
    /\ \E i \in ThinkingDeltas :
          out[i + 1] = [type |-> "content_block_stop", index |-> 0]

RECURSIVE LastReported(_, _)
LastReported(h, counter) ==
    IF h = <<>> THEN 0
    ELSE LET last == h[Len(h)]
         IN IF /\ last.type = "chunk"
               /\ last.usage_metadata # None
               /\ The(last.usage_metadata)[counter] # None
            THEN The(The(last.usage_metadata)[counter])
            ELSE LastReported(SubSeq(h, 1, Len(h) - 1), counter)

\* C6: message_delta carries, for each counter, the value of the last chunk
\* that reported it, 0 if none did: reports overwrite, they are never summed.
C6_UsageOverwrites ==
    \A i \in 1..Len(out) :
        out[i].type = "message_delta" =>
            out[i].usage =
                [input_tokens |-> LastReported(recv, "prompt_token_count"),
                 output_tokens |-> LastReported(recv, "candidates_token_count"),
                 thoughts_token_count |-> LastReported(recv, "thoughts_token_count")]

C6_Witness ==
    /\ \E i \in 1..Len(out) : out[i].type = "message_delta" /\ out[i].usage.output_tokens = 2
    /\ Len(recv) >= 2
    /\ recv[1].usage_metadata # None
    /\ recv[2].usage_metadata # None
    /\ recv[1].usage_metadata # recv[2].usage_metadata

\* C7: before the first backend chunk is requested exactly three events are
\* emitted, in order message_start (usage zeroed, stop reason null),
\* content_block_start of the text block at index 0, ping; message_start and
\* the start of block 0 are never emitted again.
C7_StartBeforeFirstRequest ==
    /\ (requested > 0 \/ gw # "unstarted") => Len(out) >= 3
    /\ requested = 0 => Len(out) <= 3
    /\ \A i \in 1..Len(out) :
          /\ i = 1 => out[i] = [type |-> "message_start", stop_reason |-> None,
                                usage |-> [input_tokens |-> 0, output_tokens |-> 0]]
          /\ i = 2 => out[i] = [type |-> "content_block_start", index |-> 0,
                                block |-> "text"]
          /\ i = 3 => out[i] = [type |-> "ping"]
          /\ i > 3 => /\ out[i].type # "message_start"
                      /\ ~(out[i].type = "content_block_start" /\ out[i].index = 0)

C7_Witness == requested = 1 /\ Len(out) = 3 /\ recv # <<>>

LoopEnded == gw \in {"primary_done", "fallback_done"}
IsDrainEvent(e) ==
    \/ e.type \in {"message_delta", "message_stop", "[DONE]"}
    \/ (e.type = "content_block_stop" /\ e.index = 0)

Errors == {i \in 1..Len(out) : out[i].type = "error"}
Failed == (recv # <<>> /\ recv[Len(recv)].type = "error") \/ gw = "raised"

C9_ErrorTerminates ==
    /\ Cardinality(Errors) <= 1
    /\ \A i \in Errors : i = Len(out) /\ pending = <<>> /\ pc = "done"
    /\ \A i \in 1..Len(out) : \A j \in 1..Len(pending) :
          out[i].type = "error" => ~IsDrainEvent(pending[j])
    /\ Failed =>
          /\ \A i \in 1..Len(out) : ~IsDrainEvent(out[i])
          /\ \A i \in 1..Len(pending) : ~IsDrainEvent(pending[i])
          /\ pc \in {"done", "cancelled"}
          /\ (pending = <<>> /\ response = "streaming") => Cardinality(Errors) = 1

C9_NothingAfterError ==
    /\ Failed => requested' = requested
    /\ Len(out') >= Len(out) /\ SubSeq(out', 1, Len(out)) = out

\* C9: an error chunk or a raising backend sequence yields exactly one error
\* event and ends the stream: no further chunk is requested, no Drain event
\* follows, and the events sent before it stay as sent.
C9_ErrorPath == []C9_ErrorTerminates /\ [][C9_NothingAfterError]_vars

C9_Witness ==
    /\ recv # <<>> /\ recv[Len(recv)].type = "error"
    /\ Len(out) > 4
    /\ out[Len(out)].type = "error"

\* C10: if the backend call fails before delivering any chunk, the client
\* gets a single non-streaming error response and no stream event at all.
C10_NoEventOnBackendCallError ==
    (gw \in {"failed", "error_yielded"} /\ \A i \in 1..Len(recv) : recv[i].type = "error")
        => (response # "streaming" /\ out = <<>> /\ pending = <<>>)

C11_Silent ==
    response = "closed" =>
        /\ requested' = requested
        /\ recv' = recv
        /\ out' = out
        /\ pending' = <<>>

\* C11: once the client has disconnected from a stream in progress, no
\* further backend chunk is requested and no further event is yielded or
\* sent: no error event, no Drain event.
C11_DisconnectStops ==
    /\ [](response = "closed" => pending = <<>>)
    /\ [][C11_Silent]_vars

\* Disconnected after 2 chunks of a stream that could have delivered 5.
C11_Witness ==
    /\ response = "closed"
    /\ requested = 2
    /\ Len(recv) = 2
    /\ recv[2] = ResponseToDict(PlainResponse)
    /\ gw = "primary"
    /\ \A i \in 1..Len(out) : out[i].type \notin {"error", "message_stop"}

RECURSIVE LastFinish(_)
LastFinish(h) ==
    IF h = <<>> THEN None
    ELSE LET last == h[Len(h)]
         IN IF /\ last.type = "chunk"
               /\ last.candidates # <<>>
               /\ last.candidates[1].finish_reason # None
            THEN last.candidates[1].finish_reason
            ELSE LastFinish(SubSeq(h, 1, Len(h) - 1))

NoCallReceived ==
    LET all == AllParts(recv) IN \A i \in 1..Len(all) : all[i].function_call = None

\* C12 as stated: in a stream without function calls, message_delta carries
\* for the last finish reason r received, recognized or not, the stop reason
\* the non-streaming transcoder gives for r.
C12_SameTableForEveryReason ==
    \A i \in 1..Len(out) :
        (out[i].type = "message_delta" /\ NoCallReceived /\ LastFinish(recv) # None)
            => out[i].stop_reason = StopReason(The(LastFinish(recv)))

\* C12: in a stream without function calls, message_delta carries for the
\* last finish reason r received the stop reason of the non-streaming
\* transcoder when r is STOP, MAX_TOKENS or TOOL_CODE, and end_turn for every
\* other r.
C12_SameTableForRecognized ==
    LET last == LastFinish(recv)
    IN \A i \in 1..Len(out) :
           (out[i].type = "message_delta" /\ NoCallReceived /\ last # None)
               => LET r == The(last)
                  IN out[i].stop_reason =
                         IF r \in {"STOP", "MAX_TOKENS", "TOOL_CODE"}
                         THEN StopReason(r) ELSE "end_turn"

C12_Witness ==
    /\ Len(recv) = 2
    /\ LastFinish(SubSeq(recv, 1, 1)) = Some("STOP")
    /\ LastFinish(recv) = Some("TOOL_CODE")
    /\ NoCallReceived
    /\ \E i \in 1..Len(out) :
          out[i].type = "message_delta" /\ out[i].stop_reason = "tool_use"

\* The non-streaming request was answered with a converted response.
Converted == ns_pc = "done" /\ http_response # None /\ The(http_response).status = 200
FirstCandidate == The(api_response).candidates[1]

\* C13: the non-streaming stop reason is end_turn for STOP, max_tokens for
\* MAX_TOKENS, tool_use for TOOL_CODE and stop_sequence for every other
\* finish reason of the first candidate, compared case-sensitively.
C13_FinishReasonTable ==
    (Converted /\ The(api_response).candidates # <<>>) =>
        LET r == The(FirstCandidate.finish_reason)
            stop_reason == The(http_response).content.stop_reason
        IN /\ r = "STOP" => stop_reason = Some("end_turn")
           /\ r = "MAX_TOKENS" => stop_reason = Some("max_tokens")
           /\ r = "TOOL_CODE" => stop_reason = Some("tool_use")
           /\ r \notin {"STOP", "MAX_TOKENS", "TOOL_CODE"}
                 => stop_reason = Some("stop_sequence")

C13_Witness ==
    /\ Converted
    /\ The(api_response).candidates # <<>>
    /\ FirstCandidate.finish_reason = Some("stop")
    /\ The(http_response).content.stop_reason = Some("stop_sequence")

\* C14: the usage of the non-streaming response carries the backend's input
\* and output counts, 0 when omitted, and has the reasoning-token field only
\* when the backend's reasoning count is positive: otherwise the field is
\* absent, not present with a zero or null value.
C14_ReasoningTokensOnlyIfPositive ==
    Converted =>
        LET um == The(api_response).usage_metadata
            usage == The(http_response).content.usage
            Count(key) == IF um = None \/ The(um)[key] = None THEN 0 ELSE The(The(um)[key])
        IN /\ usage.input_tokens = Count("prompt_token_count")
           /\ usage.output_tokens = Count("candidates_token_count")
           /\ IF Count("thoughts_token_count") > 0
              THEN /\ "thoughts_token_count" \in DOMAIN usage
                   /\ usage.thoughts_token_count = Some(Count("thoughts_token_count"))
              ELSE "thoughts_token_count" \notin DOMAIN usage

IsBlockPart(part) == part.text # <<>> \/ part.function_call # None

C16_TotalOnWellFormed ==
    (ns_pc = "done" /\ api_response # None) =>
        /\ The(http_response).status = 200
        /\ (\/ The(api_response).candidates = <<>>
            \/ FirstCandidate.finish_reason = None)
              => "stop_reason" \notin DOMAIN The(http_response).content

\* ------------------------------------------------------ the schema adapter
\* Every dict of a JSON value, at any depth.
RECURSIVE Nodes(_)
Nodes(v) ==
    IF v.kind = "dict"
    THEN {v.val} \cup UNION {Nodes(v.val[key]) : key \in DOMAIN v.val}
    ELSE IF v.kind = "list"
    THEN UNION {Nodes(v.val[i]) : i \in 1..Len(v.val)}
    ELSE {}

DisallowedKeywords ==
    {"$schema", "additionalProperties", "patternProperties", "dependencies",
     "exclusiveMinimum", "exclusiveMaximum", "multipleOf", "const",
     "contentEncoding", "contentMediaType", "examples", "default", "readOnly",
     "writeOnly", "deprecated"}

StringTyped(d) == Has(d, "type") /\ d["type"] \in {S("string"), S("String")}

\* C17: the adapted schema has at no depth a disallowed keyword nor a
\* string-typed node with a format other than enum or date-time, and the
\* validation that follows reports no issue.
C17_AdaptedSchemaIsClean ==
    /\ adapted_schema # None =>
          \A d \in Nodes(The(adapted_schema)) :
              /\ DOMAIN d \cap DisallowedKeywords = {}
              /\ (StringTyped(d) /\ Has(d, "format"))
                    => d["format"] \in {S("enum"), S("date-time")}
    /\ validation_issues # None => The(validation_issues) = 0

\* A schema was validated that held, below its root, a string-typed node
\* with a disallowed keyword and a disallowed format.
C17_Witness ==
    /\ validation_issues # None
    /\ \E d \in Nodes(The(original_schema)) :
          /\ d # The(original_schema).val
          /\ Has(d, "const")
          /\ StringTyped(d)
          /\ Has(d, "format") /\ d["format"] = S("custom")

\* The description texts of a JSON value, at any depth.
Descriptions(v) ==
    {d["description"].val : d \in {n \in Nodes(v) :
        Has(n, "description") /\ n["description"].kind = "str"}}

Contains(text, token) == \E i \in 1..Len(text) : text[i] = token

TechnicalInfoMarker == Lit("[Technical Info - Removed for Gemini compatibility: ")

\* C18: the adapter applied to its own output returns that output: nothing
\* is removed, no hint and no second technical-info marker is appended.
C18_AdaptIsIdempotent ==
    readapted_schema # None => readapted_schema = adapted_schema

\* The adapter ran a second time on a schema to which the first run had
\* added a technical-info marker at the root and, below it, a hint and a
\* marker to a description.
C18_Witness ==
    /\ readapted_schema # None
    /\ LET adapted == The(adapted_schema)
       IN /\ adapted.kind = "dict"
          /\ Has(adapted.val, "description")
          /\ adapted.val["description"].kind = "str"
          /\ Contains(adapted.val["description"].val, TechnicalInfoMarker)
          /\ \E text \in Descriptions(adapted) :
                /\ text # adapted.val["description"].val
                /\ Contains(text, Lit(" | "))
                /\ Contains(text, TechnicalInfoMarker)

\* The name of the keyword and a textual form of its value are in one of
\* the description texts.
Preserved(key, value, texts) ==
    \E text \in texts :
        /\ Contains(text, Lit(key))
        /\ Contains(text, Dumped(value)) \/ Contains(text, Shown(value))

\* C19: for every disallowed keyword K with value V at any node of the
\* original schema, under whatever key the node is nested, the name K and a
\* textual form of V are in the description text of the adapted schema.
C19_InformationPreserved ==
    adapted_schema # None =>
        \A d \in Nodes(The(original_schema)) :
            \A key \in DOMAIN d \cap DisallowedKeywords :
                Preserved(key, d[key], Descriptions(The(adapted_schema)))

\* The nodes the adapter is applied to, each with what it became: the schema
\* itself and, recursively, what lies under properties, items, anyOf, oneOf
\* and allOf.
RECURSIVE Adapted(_, _)
Adapted(before, after) ==
    IF before.kind = "list"
    THEN UNION {Adapted(before.val[i], after.val[i]) : i \in 1..Len(before.val)}
    ELSE IF before.kind # "dict" THEN {}
    ELSE LET b == before.val
             a == after.val
             Below(key, kinds) ==
                 IF Has(b, key) /\ b[key].kind \in kinds
                 THEN IF b[key].kind = "list" THEN Adapted(b[key], a[key])
                      ELSE IF key = "items" THEN Adapted(b[key], a[key])
                      ELSE UNION {Adapted(b[key].val[name], a[key].val[name]) :
                                     name \in DOMAIN b[key].val \cap DOMAIN a[key].val}
                 ELSE {}
         IN {<<b, a>>} \cup Below("properties", {"dict"})
                       \cup Below("items", {"dict", "list"})
                       \cup Below("anyOf", {"list"})
                       \cup Below("oneOf", {"list"})
                       \cup Below("allOf", {"list"})

Exclusive(bound, limit, step) ==
    \A pair \in Adapted(The(original_schema), The(adapted_schema)) :
        LET b == pair[1]
            a == pair[2]
        IN (Has(b, bound) /\ b[bound].kind \in {"int", "float"}) =>
              /\ ~Has(a, bound)
              /\ Has(a, limit)
              /\ a[limit] = IF b[bound].kind = "int"
                            THEN Integer(b[bound].val + step)
                            ELSE b[bound]

\* C20: a node with exclusiveMinimum N is adapted to one without the
\* keyword and with minimum N+1 for an integer N, minimum N for another
\* number; exclusiveMaximum N gives maximum N-1 or N in the same way.
C20_ExclusiveBecomesInclusive ==
    (adapted_schema # None /\ The(adapted_schema).kind # "raised") =>
        /\ Exclusive("exclusiveMinimum", "minimum", 1)
        /\ Exclusive("exclusiveMaximum", "maximum", -1)

\* {exclusiveMinimum: 5} was adapted and has minimum 6.
C20_Witness ==
    /\ original_schema = Some(Dict(MkDict({<<"exclusiveMinimum", Integer(5)>>})))
    /\ adapted_schema # None
    /\ Has(The(adapted_schema).val, "minimum")
    /\ The(adapted_schema).val["minimum"] = Integer(6)

\* C21: the adapter returns a value for every JSON value given as a
\* schema, malformed nodes included; it never raises.
C21_AdaptIsTotal ==
    adapted_schema # None => The(adapted_schema).kind # "raised"

\* ------------------------------------------------------ request conversion
\* The contents are built.
ContentsBuilt == gemini_request_data # None

\* The blocks of the body as the client sent them, message by message.
WireBlocks ==
    LET messages == The(body).messages
        of_blocks == {m \in 1..Len(messages) : messages[m].content.kind = "list"}
    IN UNION {{messages[m].content.val[i] : i \in 1..Len(messages[m].content.val)} :
                 m \in of_blocks}

AllRequestParts ==
    UNION {{contents[e].parts[i] : i \in 1..Len(contents[e].parts)} :
              e \in 1..Len(contents)}

\* The part carries what the block carries.
PartOfBlock(part, block) ==
    CASE block.type = "text" ->
            "text" \in DOMAIN part /\ part.text = The(block.text)
      [] block.type = "tool_use" ->
            /\ "function_call" \in DOMAIN part
            /\ part.function_call = [name |-> The(block.name), args |-> The(block.input)]
      [] block.type = "tool_result" ->
            /\ "function_response" \in DOMAIN part
            /\ part.function_response =
                   [name |-> The(block.tool_use_id),
                    response |-> [result |-> The(block.content)]]
      [] block.type = "image" ->
            /\ "inline_data" \in DOMAIN part
            /\ The(block.source).data # None =>
                   part.inline_data.data = The(The(block.source).data).bytes

Signed(block) ==
    /\ block.type \in {"text", "tool_use", "tool_result"}
    /\ block.thought_signature # None

\* C22: for every text, tool_use or tool_result block of the request that
\* carries a continuation signature, the backend part produced for the block
\* carries the same signature value.
C22_SignaturePropagated ==
    ContentsBuilt =>
        \A block \in {b \in WireBlocks : Signed(b)} :
            \E part \in AllRequestParts :
                /\ PartOfBlock(part, block)
                /\ "thought_signature" \in DOMAIN part
                /\ part.thought_signature = The(block.thought_signature)

\* The entry of a message: its role with assistant as model, and one part
\* per block in the order of the blocks.
EntryOfMessage(entry, msg) ==
    /\ entry.role = (IF msg.role = "assistant" THEN "model" ELSE "user")
    /\ IF msg.content.kind = "str"
       THEN entry.parts = <<[text |-> msg.content.val]>>
       ELSE /\ Len(entry.parts) = Len(msg.content.val)
            /\ \A i \in 1..Len(entry.parts) :
                  PartOfBlock(entry.parts[i], msg.content.val[i])

\* The entries are those of the messages, in order; a message with an empty
\* list of blocks has an entry without parts or no entry.
RECURSIVE OneToOne(_, _)
OneToOne(messages, entries) ==
    IF messages = <<>> THEN entries = <<>>
    ELSE LET msg == Head(messages)
         IN \/ /\ msg.content.kind = "list"
               /\ msg.content.val = <<>>
               /\ OneToOne(Tail(messages), entries)
            \/ /\ entries # <<>>
               /\ EntryOfMessage(Head(entries), msg)
               /\ OneToOne(Tail(messages), Tail(entries))

\* The entries that follow the entries made for the system prompt.
MessageEntries ==
    IF HasSystem(The(body)) THEN SubSeq(contents, 3, Len(contents)) ELSE contents

\* C23: the content produced for a message given as a list of blocks has
\* exactly one part per block, in the order of the blocks: text as a text
\* part, image as a binary part, tool_use as a function call with the name
\* and the input, tool_result as a function response under the tool-use id;
\* no block is dropped, and role assistant becomes role model.
C23_OnePartPerBlock ==
    ContentsBuilt => OneToOne(The(body).messages, MessageEntries)

\* The generation config is built.
ConfigBuilt == rq_pc \in {"thinking", "done"}

\* The generation config sent, without fields if none is sent.
SentGenerationConfig ==
    IF "generation_config" \in DOMAIN The(gemini_request_data)
    THEN The(gemini_request_data)["generation_config"]
    ELSE <<>>

\* C24: the generation config has the field of temperature, top_p, top_k,
\* stop sequences or max output tokens exactly if the client request supplied
\* it; a field the client omitted is not sent with a default value.
C24_ConfigFieldIffSupplied ==
    ConfigBuilt =>
        \A claude_key \in DOMAIN config_fields :
            config_fields[claude_key] \in DOMAIN SentGenerationConfig
                <=> The(body)[claude_key] # None

\* The entry is made of a message: its role, and parts of its blocks only.
FromMessage(entry, msg) ==
    /\ entry.role = (IF msg.role = "assistant" THEN "model" ELSE "user")
    /\ IF msg.content.kind = "str"
       THEN entry.parts = <<[text |-> msg.content.val]>>
       ELSE \A i \in 1..Len(entry.parts) :
               \E j \in 1..Len(msg.content.val) :
                   PartOfBlock(entry.parts[i], msg.content.val[j])

\* Every entry is made of a message of its own, and the entries are in the
\* order of their messages.
RECURSIVE InOrder(_, _)
InOrder(messages, entries) ==
    \/ entries = <<>>
    \/ /\ messages # <<>>
       /\ \/ /\ FromMessage(Head(entries), Head(messages))
             /\ InOrder(Tail(messages), Tail(entries))
          \/ InOrder(Tail(messages), entries)

\* The request has a system prompt that is not empty; it has a tool.
SystemPresent ==
    The(body).system # None /\ The(The(body).system).val # <<>>
ToolPresent ==
    The(body).tools # None /\ Len(The(The(body).tools)) >= 1

\* The text of the first entry made for the system prompt.
DirectedSystemText ==
    IF ToolPresent
    THEN SystemText(The(The(body).system)) \o <<ToolEnhancement>>
    ELSE SystemText(The(The(body).system))

\* C25: with a system prompt, the contents begin with exactly two entries
\* made for it, a user entry with the system text, followed by the tool-use
\* directive exactly if the request has a tool, and a model entry with the
\* acknowledgment; the entries of the messages follow in the order of the
\* messages.  Without a system prompt every entry is the entry of a message.
C25_SystemPromptExchange ==
    ContentsBuilt =>
        IF SystemPresent
        THEN /\ Len(contents) >= 2
             /\ contents[1] = [role |-> "user", parts |-> <<[text |-> DirectedSystemText]>>]
             /\ contents[2] = [role |-> "model", parts |-> <<[text |-> <<Acknowledgment>>]>>]
             /\ Len(contents) - 2 <= Len(The(body).messages)
             /\ InOrder(The(body).messages, SubSeq(contents, 3, Len(contents)))
        ELSE /\ Len(contents) <= Len(The(body).messages)
             /\ InOrder(The(body).messages, contents)

\* A request with a system prompt, a tool and two messages is converted.
C25_Witness ==
    /\ rq_pc = "done"
    /\ SystemPresent
    /\ ToolPresent
    /\ Len(The(body).messages) = 2
    /\ Len(contents) = 4
    /\ contents[3].role = "model"
    /\ contents[4].role = "user"

\* The tool choice is converted.
ToolChoiceDone == rq_pc \in {"generation_config", "thinking", "done"}

\* The type of the tool choice of the request, if it has one.
ChoiceType ==
    IF The(body).tool_choice # None /\ "type" \in DOMAIN The(The(body).tool_choice)
    THEN Some(The(The(body).tool_choice)["type"])
    ELSE None

SentToolConfig ==
    IF "tool_config" \in DOMAIN The(gemini_request_data)
    THEN Some(The(gemini_request_data)["tool_config"])
    ELSE None

\* C26: tool choice auto gives mode AUTO, any gives ANY, none gives NONE,
\* and tool with the name n gives the restricted mode with the allowed
\* function names [n]; without a tool choice, or with another type, no tool
\* config is sent.
C26_ToolChoiceMapping ==
    ToolChoiceDone =>
        CASE ChoiceType = Some("auto") ->
                SentToolConfig = Some([function_calling_config |-> [mode |-> "AUTO"]])
          [] ChoiceType = Some("any") ->
                SentToolConfig = Some([function_calling_config |-> [mode |-> "ANY"]])
          [] ChoiceType = Some("none") ->
                SentToolConfig = Some([function_calling_config |-> [mode |-> "NONE"]])
          [] ChoiceType = Some("tool") ->
                "name" \in DOMAIN The(The(body).tool_choice) =>
                    SentToolConfig =
                        Some([function_calling_config |->
                                 [mode |-> "ONE",
                                  allowed_function_names |->
                                      <<Some(The(The(body).tool_choice)["name"])>>]])
          [] OTHER -> SentToolConfig = None

\* A request that forces the tool g is converted.
C26_Witness ==
    /\ rq_pc = "done"
    /\ ChoiceType = Some("tool")
    /\ "name" \in DOMAIN The(The(body).tool_choice)
    /\ The(The(body).tool_choice)["name"] = "g"
    /\ SentToolConfig # None
    /\ The(SentToolConfig).function_calling_config.mode = "ONE"

\* The thinking configuration sent, if one is sent.
SentThinkingConfig ==
    IF "thinking_config" \in DOMAIN The(gemini_request_data)
    THEN Some(The(gemini_request_data)["thinking_config"])
    ELSE None

\* The thinking configuration of the request as the client gave it, and the
\* fields of it that are given; enabled counts as given true when omitted.
GivenThinking == The(The(body).thinking)
ExplicitlyDisabled ==
    The(body).thinking # None /\ GivenThinking.enabled = Some(FALSE)
EnabledByRequest ==
    The(body).thinking # None /\ GivenThinking.enabled # Some(FALSE)

\* The lower-cased model name has a keyword of the large tier.
LargeTier ==
    \E i \in 1..Len(The(body).model) :
        The(body).model[i] \in {"pro", "opus", "sonnet", "big", "Sonnet", "OPUS", "BIG"}

\* C27: a thinking configuration that is explicitly disabled sends no
\* reasoning configuration; an enabled one with the budget b sends the budget
\* b; an enabled one without a budget sends the large-tier default if the
\* lower-cased model name has a large-tier keyword and the small-tier default
\* otherwise; include_thoughts is sent only when the client set it to true.
C27_ThinkingMapping ==
    rq_pc = "done" =>
        /\ ExplicitlyDisabled => SentThinkingConfig = None
        /\ EnabledByRequest =>
              /\ SentThinkingConfig # None
              /\ The(SentThinkingConfig).thinking_budget =
                     IF GivenThinking.budget # None THEN The(GivenThinking.budget)
                     ELSE IF LargeTier THEN 5000
                     ELSE 1000
        /\ (/\ SentThinkingConfig # None
            /\ "include_thoughts" \in DOMAIN The(SentThinkingConfig))
               => /\ The(body).thinking # None
                  /\ GivenThinking.include_thoughts = Some(TRUE)
                  /\ The(SentThinkingConfig).include_thoughts = TRUE

\* An enabled configuration without a budget is converted for a model whose
\* name has a large-tier keyword in upper case.
C27_Witness ==
    /\ rq_pc = "done"
    /\ EnabledByRequest
    /\ GivenThinking.budget = None
    /\ GivenThinking.include_thoughts = Some(TRUE)
    /\ The(body).model = <<"claude-", "OPUS">>
    /\ SentThinkingConfig = Some([thinking_budget |-> 5000, include_thoughts |-> TRUE])

\* ------------------------------------------------------------ tool calls
\* What the converter yielded: what was sent, then what waits to be sent.
Yielded == out \o pending

\* The function-call parts received, in order.
CallParts == SelectSeq(AllParts(recv), IsCallPart)

\* The event carries the whole arguments of the call at the index; the
\* event stops the block at the index.
IsArgumentsDelta(e, index, call) ==
    /\ e.type = "content_block_delta"
    /\ e.delta = "input_json_delta"
    /\ e.index = index
    /\ e.text = JsonDumps(call.args)
IsStopAt(e, index) == e.type = "content_block_stop" /\ e.index = index

\* The events after the start of the block of a call are those of the call,
\* as far as they were yielded.
FollowsToolStart(rest, index, call) ==
    IF call.args # <<>>
    THEN /\ Len(rest) >= 1 => IsArgumentsDelta(rest[1], index, call)
         /\ Len(rest) >= 2 => IsStopAt(rest[2], index)
    ELSE Len(rest) >= 1 => IsStopAt(rest[1], index)
EventsOfCall(call) == IF call.args # <<>> THEN 2 ELSE 1

\* C28: for each function-call part, the k-th at the index k, the converter
\* yields content_block_start of a tool_use block with an id no earlier
\* block has, the
\* name of the function and an empty input, then one content_block_delta
\* with the whole arguments as one JSON text exactly if the arguments are not
\* empty, then content_block_stop, all at one index and with no other event
\* between them.
C28_ToolCallEvents ==
    LET yielded == Yielded
        calls == CallParts
        starts == Len(SelectSeq(yielded, IsToolStart))
    IN /\ response = "streaming" /\ pc \in {"await", "parts", "drain"} =>
              starts = Len(SelectSeq(ProcessedParts, IsCallPart))
       /\ starts <= Len(calls)
       /\ \A i \in 1..Len(yielded) :
             IsToolStart(yielded[i]) =>
                 LET start == yielded[i]
                     call == The(calls[start.index].function_call)
                     rest == SubSeq(yielded, i + 1, Len(yielded))
                 IN /\ start.index \in 1..Len(calls)
                    /\ start.id[1] = "toolu_"
                    /\ \A j \in 1..(i - 1) :
                          IsToolStart(yielded[j]) => yielded[j].id # start.id
                    /\ start.name = call.name
                    /\ start.input = <<>>
                    /\ FollowsToolStart(rest, start.index, call)
                    /\ response # "closed" => Len(rest) >= EventsOfCall(call)

\* A call with arguments and a call without were converted and sent.
C28_Witness ==
    /\ response = "streaming"
    /\ \E i \in 1..Len(out) :
          /\ Len(out) >= i + 4
          /\ IsToolStart(out[i])
          /\ out[i + 1].type = "content_block_delta"
          /\ out[i + 1].delta = "input_json_delta"
          /\ out[i + 2].type = "content_block_stop"
          /\ IsToolStart(out[i + 3])
          /\ out[i + 4].type = "content_block_stop"
          /\ out[i + 3].index # out[i].index

\* C29: when a function-call part was received and the stream ends normally,
\* message_delta carries the stop reason tool_use, also when the backend
\* reports the finish reason STOP with the call or after it.
C29_ToolUseStopReason ==
    EndedNormally /\ CallParts # <<>> =>
        \A i \in 1..Len(out) :
            out[i].type = "message_delta" => out[i].stop_reason = "tool_use"

\* ------------------------------------------------------ one backend call
\* C30: the chunks the converter receives are the first chunks of one
\* backend call, with at most one error chunk after them as the last chunk:
\* the fallback call delivers no chunk once a chunk of the primary call was
\* delivered, and no chunk follows the error chunk.
C30_OneBackendCall ==
    [][/\ (gw # "fallback" /\ gw' = "fallback") => recv = <<>>
       /\ (recv # <<>> /\ recv[Len(recv)].type = "error") => recv' = recv]_vars

\* ------------------------------------------------- reasoning is delivered
\* C31: in a stream that ends normally the reasoning text of the wrapped
\* delta is the concatenation of all reasoning parts received, those that
\* arrive after the first regular text part included.
C31_AllReasoningDelivered ==
    EndedNormally =>
        LET reasoning == ReasoningOf(AllParts(recv))
        IN reasoning # <<>> =>
              \E i \in ThinkingDeltas :
                  out[i].text = <<"<thinking>", "\n">> \o reasoning
                                   \o <<"\n", "</thinking>">>

\* --------------------------------------------- parameters stay defined
\* The names of the parameters a node defines, and those it requires.
PropertyNames(d) ==
    IF Has(d, "properties") /\ d["properties"].kind = "dict"
    THEN DOMAIN d["properties"].val
    ELSE {}
RequiredNames(d) ==
    IF Has(d, "required") /\ d["required"].kind = "list"
    THEN {d["required"].val[i] : i \in 1..Len(d["required"].val)}
    ELSE {}

\* C32: adapt preserves the key set of every properties map, a parameter
\* named like a disallowed keyword included, so every name in a node's
\* required array still has an entry in that node's properties.
C32_ParametersStayDefined ==
    (tool_pc \in {"validate", "adapted", "done"}) =>
        \A pair \in Adapted(The(original_schema), The(adapted_schema)) :
            /\ PropertyNames(pair[2]) = PropertyNames(pair[1])
            /\ (RequiredNames(pair[1]) \subseteq {S(name) : name \in PropertyNames(pair[1])}
                   => RequiredNames(pair[2])
                         \subseteq {S(name) : name \in PropertyNames(pair[2])})

\* ------------------------------------------------- both bounds on one node
Max(a, b) == IF a >= b THEN a ELSE b
Min(a, b) == IF a <= b THEN a ELSE b
IntegerAt(d, key) == Has(d, key) /\ d[key].kind = "int"

\* C33: a node with minimum M and exclusiveMinimum N (integers) is adapted
\* to one whose minimum is at least max(M, N+1); with maximum M and
\* exclusiveMaximum N the adapted maximum is at most min(M, N-1).
C33_TighterBoundKept ==
    (adapted_schema # None /\ The(adapted_schema).kind # "raised") =>
        \A pair \in Adapted(The(original_schema), The(adapted_schema)) :
            LET b == pair[1]
                a == pair[2]
            IN /\ (IntegerAt(b, "minimum") /\ IntegerAt(b, "exclusiveMinimum")) =>
                     /\ IntegerAt(a, "minimum")
                     /\ a["minimum"].val
                            >= Max(b["minimum"].val, b["exclusiveMinimum"].val + 1)
               /\ (IntegerAt(b, "maximum") /\ IntegerAt(b, "exclusiveMaximum")) =>
                     /\ IntegerAt(a, "maximum")
                     /\ a["maximum"].val
                            <= Min(b["maximum"].val, b["exclusiveMaximum"].val - 1)

\* ------------------------------------------------------------ termination
\* The streams followed to their end: chunks with reasoning and text, with
\* a function call, a finish reason and usage, and without candidate, from
\* either endpoint, ended by the backend, by an error payload or by an
\* exception.
LiveResponses ==
    {RawResponse(<<ThoughtA, TextC>>, None, None),
     RawResponse(<<CallArgs>>, Some("STOP"), Some(RawUsage(Some(1), Some(2), Some(1)))),
     NoCandidateResponse}
LiveChoices(h) ==
    IF Len(h) < MaxLiveChunks THEN LiveResponses ELSE {}

\* PrimaryYield and FallbackYield on these streams.
PrimaryYieldLive ==
    /\ Awaiting
    /\ gw \in {"unstarted", "primary"}
    /\ \E response_obj \in LiveChoices(recv) : Receive(ResponseToDict(response_obj))
    /\ gw' = "primary"
    /\ requested' = Resumed
    /\ UNCHANGED off_stream

FallbackYieldLive ==
    /\ Awaiting
    /\ gw \in {"fallback_call", "fallback"}
    /\ \E response_obj \in LiveChoices(recv) : Receive(ResponseToDict(response_obj))
    /\ gw' = "fallback"
    /\ requested' = Resumed
    /\ UNCHANGED off_stream

\* The steps of the server and of the backend; the client's disconnect is
\* not one of them.
Runs ==
    \/ create_message
    \/ Deliver
    \/ Start
    \/ PrimaryYieldLive
    \/ PrimaryEnds
    \/ PrimaryFails
    \/ FallbackYieldLive
    \/ FallbackEnds
    \/ FallbackFails
    \/ YieldError
    \/ GatewayRaises
    \/ ProcessPart
    \/ EndChunk
    \/ Drain

NextLive ==
    \/ create_message
    \/ Deliver
    \/ Start
    \/ PrimaryYieldLive
    \/ PrimaryEnds
    \/ PrimaryFails
    \/ FallbackYieldLive
    \/ FallbackEnds
    \/ FallbackFails
    \/ YieldError
    \/ GatewayRaises
    \/ ProcessPart
    \/ EndChunk
    \/ Drain
    \/ Disconnect

\* The backend answers every resumption (with a chunk, its end or an
\* exception), the transport takes every event yielded and the event loop
\* runs the generator whenever it can go on: no such step is put off for
\* ever.  Nothing is assumed of the client.
SpecLive == Init /\ [][NextLive]_vars /\ WF_vars(Runs)

\* The generator has returned, or was closed, and nothing it yielded waits.
Terminated == pc \in {"done", "cancelled"} /\ pending = <<>>
\* It returned by itself and the client has every event.
Returned == pc = "done" /\ pending = <<>> /\ response = "streaming"
Sentinels == {i \in 1..Len(out) : out[i].type = "[DONE]"}

\* C34: whatever the backend sequence (ending normally, with an error chunk
\* or with an exception), the transcoder terminates; when it has returned,
\* its last output is the end-of-stream sentinel or an error event, and the
\* stream does not hold both.
C34_Terminates ==
    /\ <>Terminated
    /\ [](Returned =>
             /\ out # <<>>
             /\ out[Len(out)].type \in {"[DONE]", "error"}
             /\ Sentinels = {} \/ Errors = {})

\* A stream ended by an error chunk after content was sent.
C34_Witness ==
    /\ Returned
    /\ Len(recv) >= 2
    /\ recv[Len(recv)].type = "error"
    /\ out[Len(out)].type = "error"

\* ------------------------------------------------- the last write wins
\* The values written to the stop reason, in processing order: tool_use by
\* every function-call part of a chunk, then the value mapped from the
\* chunk's finish reason.
RECURSIVE PartWrites(_)
PartWrites(ps) ==
    IF ps = <<>> THEN <<>>
    ELSE (IF IsCallPart(Head(ps)) THEN <<"tool_use">> ELSE <<>>) \o PartWrites(Tail(ps))

ChunkWrites(chunk) ==
    IF chunk.type = "chunk" /\ chunk.candidates # <<>>
    THEN PartWrites(chunk.candidates[1].content.parts)
         \o (IF chunk.candidates[1].finish_reason # None
             THEN <<StreamStopReason(The(chunk.candidates[1].finish_reason))>>
             ELSE <<>>)
    ELSE <<>>

RECURSIVE StopReasonWrites(_)
StopReasonWrites(h) ==
    IF h = <<>> THEN <<>> ELSE ChunkWrites(Head(h)) \o StopReasonWrites(Tail(h))

\* C35: the stop reason of message_delta is the value of the last
\* stop-reason update in processing order (tool_use by a function-call part,
\* the mapped finish reason after the parts of its chunk), and end_turn if
\* there was none.
C35_LastWriteWins ==
    EndedNormally =>
        LET writes == StopReasonWrites(recv)
            last == IF writes = <<>> THEN "end_turn" ELSE writes[Len(writes)]
        IN /\ \E i \in 1..Len(out) : out[i].type = "message_delta"
           /\ \A i \in 1..Len(out) :
                 out[i].type = "message_delta" => out[i].stop_reason = last

\* A function call was followed by a finish reason that maps to another
\* value, and the stream ended with that value.
C35_Witness ==
    /\ EndedNormally
    /\ LET writes == StopReasonWrites(recv)
       IN /\ Len(writes) >= 2
          /\ writes[Len(writes) - 1] = "tool_use"
          /\ writes[Len(writes)] = "max_tokens"
    /\ \E i \in 1..Len(out) :
          out[i].type = "message_delta" /\ out[i].stop_reason = "max_tokens"

\* ------------------------------------------------------------- keep-alive
Pings(events) == {i \in 1..Len(events) : events[i].type = "ping"}

\* What one step yields: on receipt of a chunk whose ordinal is a multiple
\* of 5 a ping and then the chunk's other events, on receipt of another
\* chunk no ping; after Start no other step yields a ping.
PingStep ==
    IF recv' # recv
    THEN IF Len(recv') % 5 = 0
         THEN pending' # <<>> /\ Pings(pending') = {1}
         ELSE Pings(pending') = {}
    ELSE pc = "start" \/ Cardinality(Pings(pending')) <= Cardinality(Pings(pending))

\* C36: besides the ping of Start, a ping is emitted exactly for each chunk
\* whose ordinal is a multiple of 5, before any other event of that chunk
\* and whatever the chunk holds (no candidate included); a normally ending
\* stream of n chunks carries 1 + n \div 5 pings.
C36_KeepAlive ==
    /\ [][PingStep]_vars
    /\ [](EndedNormally => Cardinality(Pings(out)) = 1 + Len(recv) \div 5)

\* ---------------------------------------------------------- content cache
\* The operation a step has made, if it made one.
Operated == Len(cache_log') = Len(cache_log) + 1
Operation == cache_log'[Len(cache_log')]

\* A lookup of an entry whose expiry time has come reports no hit and
\* removes the entry; a lookup that reports a hit found an entry that had
\* not expired.
LookupStep ==
    (Operated /\ Operation.op = "check") =>
        LET key == Operation.key
            present == key \in DOMAIN cache_store
        IN /\ (present /\ clock >= cache_store[key].expire_time) =>
                 /\ Operation.result = None
                 /\ key \notin DOMAIN cache_store'
           /\ Operation.result # None =>
                 /\ present
                 /\ clock < cache_store[key].expire_time
                 /\ key \in DOMAIN cache_store'

Stores(key) ==
    {i \in 1..Len(cache_log) : cache_log[i].op = "store" /\ cache_log[i].key = key}
LastStore(key) == CHOOSE i \in Stores(key) : \A j \in Stores(key) : j <= i
HitsSinceStore(key) ==
    {i \in (LastStore(key) + 1)..Len(cache_log) :
        /\ cache_log[i].op = "check"
        /\ cache_log[i].key = key
        /\ cache_log[i].result # None}

\* C37: after any sequence of stores and lookups, a lookup reports no hit
\* for an entry whose expiry time has passed and removes it, and the hit
\* count of an entry is 1 plus the number of lookups that hit it since it
\* was stored.
C37_CacheExpiryAndHits ==
    /\ [][LookupStep]_vars
    /\ [](\A key \in DOMAIN cache_store :
             /\ Stores(key) # {}
             /\ cache_store[key].hit_count = 1 + Cardinality(HitsSinceStore(key)))

\* An entry was hit after its store, and a lookup found another entry
\* expired and removed it.
C37_Witness ==
    /\ \E key \in DOMAIN cache_store : cache_store[key].hit_count = 2
    /\ \E i \in 1..Len(cache_log) :
          /\ cache_log[i].op = "check"
          /\ cache_log[i].result = None
          /\ \E j \in 1..(i - 1) :
                /\ cache_log[j].op = "store"
                /\ cache_log[j].key = cache_log[i].key
          /\ cache_log[i].key \notin DOMAIN cache_store

\* ------------------------------------------- the non-streaming backend call
\* A step calls an endpoint; the endpoint called; the call returned a
\* response.
Called == endpoint_calls' # endpoint_calls
Endpoint == endpoint_calls'[Len(endpoint_calls')]
Succeeded == api_response' # None

\* One call of an endpoint within create_chat_completion.
EndpointStep ==
    Called =>
        /\ endpoint_calls' = Append(endpoint_calls, Endpoint)
        /\ api_response = None
        /\ Endpoint = "primary" => endpoint_calls = <<>>
        /\ Endpoint = "fallback" => fallback_client /\ endpoint_calls = <<"primary">>
        /\ Succeeded => http_response' = None /\ ns_pc' = "convert"
        /\ ~Succeeded =>
              IF Endpoint = "primary" /\ fallback_client
              THEN http_response' = None /\ ns_pc' = "fallback"
              ELSE http_response' = Some([status |-> 500]) /\ ns_pc' = "done"

\* C38: the fallback endpoint is called only after the primary endpoint
\* failed and only with a fallback client configured; the call returns the
\* first successful response, and raises one error of status 500 exactly
\* when every endpoint it tried failed.
C38_FallbackAfterFailure ==
    /\ [][EndpointStep]_vars
    /\ [](ns_pc = "fallback" => endpoint_calls = <<"primary">> /\ api_response = None)
    /\ []((ns_pc = "done" /\ endpoint_calls # <<>> /\ api_response = None)
             => http_response = Some([status |-> 500]))

\* The primary endpoint failed and the response of the fallback endpoint was
\* returned to the client.
C38_Witness ==
    /\ fallback_client
    /\ endpoint_calls = <<"primary", "fallback">>
    /\ api_response # None
    /\ ns_pc = "done"
    /\ http_response # None
    /\ The(http_response).status = 200

\* ------------------------------------------------------ concurrent calls
\* What one call yields when it runs alone on the chunks it received, as a
\* fold of lines 154-359 over them: the events so far and the generator's
\* locals.
LoneStart ==
    [events |-> StartEvents, content_block_index |-> 0,
     final_stop_reason |-> "end_turn", usage_data |-> InitUsage, chunk_count |-> 0,
     thinking_buffer |-> <<>>, thinking_active |-> FALSE, thinking_sent |-> FALSE,
     returned |-> FALSE]

LoneFlush(t) ==
    IF t.thinking_active /\ t.thinking_buffer # <<>> /\ ~t.thinking_sent
    THEN <<TextDelta(0, ThinkingText(t.thinking_buffer), None)>>
    ELSE <<>>

LonePart(t, part) ==
    IF part.text # <<>>
    THEN IF part.thought
         THEN [t EXCEPT !.thinking_buffer = @ \o part.text, !.thinking_active = TRUE]
         ELSE [t EXCEPT !.events = @ \o LoneFlush(t)
                                    \o <<TextDelta(t.content_block_index, part.text,
                                                   part.thought_signature)>>,
                        !.thinking_sent = @ \/ LoneFlush(t) # <<>>]
    ELSE IF part.function_call # None
    THEN LET index == t.content_block_index + 1
             function_call == The(part.function_call)
         IN [t EXCEPT !.content_block_index = index,
                      !.final_stop_reason = "tool_use",
                      !.events = @ \o <<ToolBlockStart(index, ToolUseId(index),
                                                       function_call.name,
                                                       part.thought_signature)>>
                                   \o (IF function_call.args # <<>>
                                       THEN <<InputJsonDelta(index, function_call.args)>>
                                       ELSE <<>>)
                                   \o <<BlockStop(index)>>]
    ELSE t

RECURSIVE LoneParts(_, _)
LoneParts(t, ps) ==
    IF ps = <<>> THEN t ELSE LoneParts(LonePart(t, Head(ps)), Tail(ps))

LoneChunk(t, chunk_dict) ==
    LET count == t.chunk_count + 1
        counted == [t EXCEPT !.chunk_count = count]
    IN IF t.returned THEN t
       ELSE IF HasFunctionCallRaises(chunk_dict)
       THEN [counted EXCEPT !.events = @ \o <<StreamingError>>, !.returned = TRUE]
       ELSE IF chunk_dict.type = "error"
       THEN [counted EXCEPT !.events = @ \o PeriodicPing(count)
                                         \o <<ErrorEvent(chunk_dict.error)>>,
                            !.returned = TRUE]
       ELSE LET pinged == [counted EXCEPT !.events = @ \o PeriodicPing(count)]
                after == LoneParts(pinged, chunk_dict.candidates[1].content.parts)
                finish_reason == chunk_dict.candidates[1].finish_reason
            IN [after EXCEPT
                   !.final_stop_reason =
                       IF finish_reason # None
                       THEN StreamStopReason(The(finish_reason)) ELSE @,
                   !.usage_data = UpdateUsage(@, chunk_dict.usage_metadata)]

RECURSIVE Lone(_)
Lone(chunks) ==
    IF chunks = <<>> THEN LoneStart
    ELSE LoneChunk(Lone(SubSeq(chunks, 1, Len(chunks) - 1)), chunks[Len(chunks)])

\* Lines 370-396.
LoneDrain(t) ==
    LoneFlush(t) \o <<BlockStop(0), MessageDelta(t.final_stop_reason, t.usage_data),
                      MessageStop, Done>>

\* Message and tool ids aside.
IdAside(e) == IF IsToolStart(e) THEN [e EXCEPT !.id = "id"] ELSE e
IdsAside(events) == [i \in 1..Len(events) |-> IdAside(events[i])]

\* The events of a call are those of its run alone on the chunks it has
\* received: whenever it waits for its next chunk, and when it has ended.
AsAlone(frame) ==
    LET alone == Lone(frame.recv)
    IN /\ (frame.pc = "await" /\ frame.pending = <<>>)
             => IdsAside(frame.out) = IdsAside(alone.events)
       /\ (frame.pc = "done" /\ frame.pending = <<>>)
             => IdsAside(frame.out) = IdsAside(alone.events \o LoneDrain(alone))

\* C39: two streaming calls processed concurrently share no transcoder
\* state: under any interleaving of their steps the events of each call
\* (block indices, reasoning flush, usage and stop reason) are those it
\* emits when it runs alone on the same backend chunks.
C39_CallsAreIsolated ==
    suspended # None => AsAlone(Frame) /\ AsAlone(The(suspended))

\* Both calls handled a function call, one of them after reasoning and text,
\* and both ended.
C39_Witness ==
    /\ suspended # None
    /\ pc = "done" /\ pending = <<>>
    /\ The(suspended).pc = "done" /\ The(suspended).pending = <<>>
    /\ content_block_index = 1
    /\ The(suspended).content_block_index = 1
    /\ Len(recv) = 2
    /\ thinking_sent
====
